---------------------------- MODULE Spec2Model ----------------------------
(***************************************************************************)
(* The multi-backend LLM completion client of epic-awesome-gamer:          *)
(*   app/llm/http.py      response_json_checked (the Response Validator)   *)
(*   app/llm/provider.py  HcaptchaLLMProvider.generate_with_images and the *)
(*                        extraction / salvage / normalisation helpers     *)
(* and, of the services that drive the browser:                            *)
(*   app/services/epic_authorization_service.py  EpicAuthorization.invoke  *)
(*   app/services/epic_games_service.py     EpicGames.collect_weekly_games *)
(*                                                                         *)
(* A text (a Python str) is a tuple of one-character strings.  A decoded   *)
(* JSON value is a record [t |-> tag, v |-> payload]:                      *)
(*   "null" (Python None), "bool", "num", "str" (v: a text),               *)
(*   "arr" (v: a sequence of values), "obj" (v: a function from key texts  *)
(*   to values).                                                           *)
(***************************************************************************)
EXTENDS Integers, Sequences, FiniteSets, TLC

(***************************************************************************)
(* Characters and texts                                                    *)
(***************************************************************************)
Digits == {"0", "1", "2", "3", "4", "5", "6", "7", "8", "9"}

\* Python's str.strip() and the regex class \s, on the characters of the model.
Whitespace == {" ", "\n", "\t", "\r"}

DigitVal(c) ==
    CASE c = "0" -> 0 [] c = "1" -> 1 [] c = "2" -> 2 [] c = "3" -> 3
      [] c = "4" -> 4 [] c = "5" -> 5 [] c = "6" -> 6 [] c = "7" -> 7
      [] c = "8" -> 8 [] c = "9" -> 9

\* s[i : i + len(p)] == p
MatchAt(s, i, p) ==
    /\ i >= 1
    /\ i + Len(p) - 1 <= Len(s)
    /\ \A k \in 1..Len(p) : s[i + k - 1] = p[k]

\* The member of a one-element set: The({F(x) : x \in {e}}) is F(e), with e
\* evaluated once however often F uses x.
The(S) == CHOOSE y \in S : TRUE

\* The least and the greatest member of a non-empty set of integers.
MinOf(S) == CHOOSE j \in S : \A k \in S : j <= k
MaxOf(S) == CHOOSE j \in S : \A k \in S : j >= k

\* str.find from position i: the least j >= i where p starts, 0 when there is none.
FindFrom(s, p, i) ==
    The({IF at = {} THEN 0 ELSE MinOf(at)
         : at \in {{j \in i..(Len(s) - Len(p) + 1) : MatchAt(s, j, p)}}})

\* str.rfind of one character: the greatest j <= i with s[j] = c, 0 when none.
RFindChar(s, c, i) ==
    The({IF at = {} THEN 0 ELSE MaxOf(at) : at \in {{j \in 1..i : s[j] = c}}})

\* The first index >= i that holds no whitespace (Len(s) + 1 when all is whitespace).
SkipWs(s, i) ==
    IF i > Len(s) THEN Len(s) + 1
    ELSE IF s[i] \notin Whitespace THEN i
    ELSE MinOf({j \in i..(Len(s) + 1) : j = Len(s) + 1 \/ s[j] \notin Whitespace})

\* The last index <= i that holds no whitespace (0 when all is whitespace).
SkipWsBack(s, i) ==
    IF i < 1 THEN 0
    ELSE IF s[i] \notin Whitespace THEN i
    ELSE MaxOf({j \in 0..i : j = 0 \/ s[j] \notin Whitespace})

\* str.strip()
Strip(s) ==
    The({IF a > b THEN << >> ELSE SubSeq(s, a, b)
         : a \in {SkipWs(s, 1)}, b \in {SkipWsBack(s, Len(s))}})

\* The first index >= i that holds no digit.
SkipDigits(s, i) ==
    IF i > Len(s) THEN Len(s) + 1
    ELSE IF s[i] \notin Digits THEN i
    ELSE MinOf({j \in i..(Len(s) + 1) : j = Len(s) + 1 \/ s[j] \notin Digits})

\* int() of the digits s[i..j]
RECURSIVE DigitsToInt(_, _, _)
DigitsToInt(s, i, j) ==
    IF j < i THEN 0
    ELSE 10 * DigitsToInt(s, i, j - 1) + DigitVal(s[j])

(***************************************************************************)
(* JSON values and json.loads                                              *)
(***************************************************************************)
\* Python None, which is also what json.loads gives for the JSON text null.
None == [t |-> "null", v |-> << >>]

JBool(b) == [t |-> "bool", v |-> b]
JNum(n) == [t |-> "num", v |-> n]
JStr(s) == [t |-> "str", v |-> s]
JArr(a) == [t |-> "arr", v |-> a]
JObj(o) == [t |-> "obj", v |-> o]

EmptyObj == [k \in {} |-> None]

IsNone(x) == x.t = "null"
IsDict(x) == x.t = "obj"
IsList(x) == x.t = "arr"
IsStr(x) == x.t = "str"
IsInt(x) == x.t = "num"

\* dict.get(key) with the default None
Get(d, key) == IF key \in DOMAIN d.v THEN d.v[key] ELSE None

ParseFail == [ok |-> FALSE, val |-> None, nxt |-> 0]

\* A JSON string starting at the quote s[i]: no escapes in the model's alphabet,
\* and (strict mode) no control character inside.
ParseString(s, i) ==
    The({IF j = 0 THEN ParseFail
         ELSE IF \E k \in (i + 1)..(j - 1) : s[k] \in {"\n", "\t", "\r"} THEN ParseFail
         ELSE [ok |-> TRUE, val |-> JStr(SubSeq(s, i + 1, j - 1)), nxt |-> j + 1]
         : j \in {FindFrom(s, <<"\"">>, i + 1)}})

\* A JSON integer starting at the digit s[i]: 0, or a digit 1-9 and more digits.
ParseNumber(s, i) ==
    IF s[i] = "0" THEN [ok |-> TRUE, val |-> JNum(0), nxt |-> i + 1]
    ELSE The({[ok |-> TRUE, val |-> JNum(DigitsToInt(s, i, j - 1)), nxt |-> j]
              : j \in {SkipDigits(s, i)}})

RECURSIVE ParseValue(_, _)
RECURSIVE ParseMembers(_, _, _)
RECURSIVE ParseElements(_, _, _)

\* The members of an object from the key expected at s[i]; acc holds the pairs
\* read.  key is the key, c the place of the colon, val the value, e the place
\* of what follows it.
ParseMembers(s, i, acc) ==
    IF i > Len(s) \/ s[i] # "\"" THEN ParseFail
    ELSE The({
        IF ~key.ok THEN ParseFail
        ELSE The({
            IF c > Len(s) \/ s[c] # ":" THEN ParseFail
            ELSE The({
                IF ~val.ok THEN ParseFail
                ELSE The({
                    IF e > Len(s) THEN ParseFail
                    ELSE IF s[e] = "}"
                        THEN [ok |-> TRUE, val |-> JObj((key.val.v :> val.val) @@ acc),
                              nxt |-> e + 1]
                    ELSE IF s[e] = ","
                        THEN The({ParseMembers(s, j, acc2) :
                                      j \in {SkipWs(s, e + 1)},
                                      acc2 \in {(key.val.v :> val.val) @@ acc}})
                    ELSE ParseFail
                    : e \in {SkipWs(s, val.nxt)}})
                : val \in {ParseValue(s, SkipWs(s, c + 1))}})
            : c \in {SkipWs(s, key.nxt)}})
        : key \in {ParseString(s, i)}})

\* The elements of an array from the value expected at s[i]; acc holds those read.
ParseElements(s, i, acc) ==
    The({
        IF ~val.ok THEN ParseFail
        ELSE The({
            IF e > Len(s) THEN ParseFail
            ELSE IF s[e] = "]"
                THEN [ok |-> TRUE, val |-> JArr(Append(acc, val.val)), nxt |-> e + 1]
            ELSE IF s[e] = ","
                THEN The({ParseElements(s, j, acc2) :
                              j \in {SkipWs(s, e + 1)}, acc2 \in {Append(acc, val.val)}})
            ELSE ParseFail
            : e \in {SkipWs(s, val.nxt)}})
        : val \in {ParseValue(s, i)}})

\* json.scanner's scan_once at s[i]
ParseValue(s, i) ==
    IF i > Len(s) THEN ParseFail
    ELSE IF s[i] = "\"" THEN ParseString(s, i)
    ELSE IF s[i] = "{" THEN
        The({IF j <= Len(s) /\ s[j] = "}"
             THEN [ok |-> TRUE, val |-> JObj(EmptyObj), nxt |-> j + 1]
             ELSE ParseMembers(s, j, EmptyObj)
             : j \in {SkipWs(s, i + 1)}})
    ELSE IF s[i] = "[" THEN
        The({IF j <= Len(s) /\ s[j] = "]"
             THEN [ok |-> TRUE, val |-> JArr(<< >>), nxt |-> j + 1]
             ELSE ParseElements(s, j, << >>)
             : j \in {SkipWs(s, i + 1)}})
    ELSE IF MatchAt(s, i, <<"n", "u", "l", "l">>)
        THEN [ok |-> TRUE, val |-> None, nxt |-> i + 4]
    ELSE IF MatchAt(s, i, <<"t", "r", "u", "e">>)
        THEN [ok |-> TRUE, val |-> JBool(TRUE), nxt |-> i + 4]
    ELSE IF MatchAt(s, i, <<"f", "a", "l", "s", "e">>)
        THEN [ok |-> TRUE, val |-> JBool(FALSE), nxt |-> i + 5]
    ELSE IF s[i] \in Digits THEN ParseNumber(s, i)
    ELSE ParseFail

\* json.loads(s): [ok |-> FALSE] stands for json.JSONDecodeError.
JsonLoads(s) ==
    The({The({IF r.ok /\ SkipWs(t, r.nxt) = Len(t) + 1
              THEN [ok |-> TRUE, val |-> r.val]
              ELSE [ok |-> FALSE, val |-> None]
              : r \in {ParseValue(t, SkipWs(t, 1))}})
         : t \in {s}})


(***************************************************************************)
(* _extract_first_json: direct parse, fenced block, bracket scan           *)
(***************************************************************************)
\* str.lower() on the capital letters the model's texts and headers use.
Lower(c) ==
    CASE c = "A" -> "a" [] c = "J" -> "j" [] c = "S" -> "s" [] c = "O" -> "o"
      [] c = "N" -> "n" [] c = "X" -> "x" [] c = "Y" -> "y" [] OTHER -> c

LowerText(s) == [k \in 1..Len(s) |-> Lower(s[k])]

\* s[i : i + len(p)].lower() == p
MatchAtLower(s, i, p) ==
    /\ i >= 1
    /\ i + Len(p) - 1 <= Len(s)
    /\ \A k \in 1..Len(p) : Lower(s[i + k - 1]) = p[k]

\* The backquote character (the lexer takes no backquote in a string).
BQ == "bq"

Fence == <<BQ, BQ, BQ>>
FenceJson == <<BQ, BQ, BQ, "j", "s", "o", "n">>

\* A stage's outcome: ret says whether the stage returned, val what it returned.
NoReturn == [ret |-> FALSE, val |-> None]
Return(x) == [ret |-> TRUE, val |-> x]

\* re.search of an opening fence, whitespace, a lazy group and a closing fence,
\* ignoring case (provider.py 53-54): the match starts at the leftmost opening
\* fence with a closing fence after it; group 1 runs from the end of the
\* whitespace behind the opening fence to the first closing fence.
FenceSearch(s, open) ==
    The({IF at = {} THEN [found |-> FALSE, group |-> << >>]
         ELSE The({[found |-> TRUE, group |-> SubSeq(s, a, FindFrom(s, Fence, a) - 1)]
                   : a \in {SkipWs(s, MinOf(at) + Len(open))}})
         : at \in {{i \in 1..(Len(s) - Len(open) + 1) :
                       /\ MatchAtLower(s, i, open)
                       /\ FindFrom(s, Fence, i + Len(open)) # 0}}})

\* One turn of the loop over the two fence patterns (provider.py 54-63): m is
\* the match, candidate its stripped group, r what json.loads makes of it.
FencePattern(s, open) ==
    The({
        IF ~m.found THEN NoReturn
        ELSE The({
            IF candidate = << >> THEN NoReturn
            ELSE The({IF r.ok THEN Return(r.val) ELSE NoReturn
                      : r \in {JsonLoads(candidate)}})
            : candidate \in {Strip(m.group)}})
        : m \in {FenceSearch(s, open)}})

\* A faulty variant of DirectParse: stage 1 is left out.
DirectParseLeftOut(s) == NoReturn

\* Stage 1 on the stripped text s (provider.py 46-50).
DirectParse(s) ==
    IF s # << >> /\ s[1] \in {"{", "["}
    THEN The({IF r.ok THEN Return(r.val) ELSE NoReturn : r \in {JsonLoads(s)}})
    ELSE NoReturn

\* A faulty variant of FencedBlock: the unlabelled pattern is tried first.
FencedBlockUnlabelledFirst(s) ==
    The({IF first.ret THEN first ELSE FencePattern(s, FenceJson)
         : first \in {FencePattern(s, Fence)}})

\* Stage 2 on the stripped text s (provider.py 53-63).
FencedBlock(s) ==
    The({IF first.ret THEN first ELSE FencePattern(s, Fence)
         : first \in {FencePattern(s, FenceJson)}})

\* Stage 3 on the stripped text s (provider.py 66-75): it always returns.
BracketScan(s) ==
    The({IF start # 0 /\ end # 0 /\ end > start
         THEN The({IF r.ok THEN Return(r.val) ELSE Return(None)
                   : r \in {JsonLoads(SubSeq(s, start, end))}})
         ELSE Return(None)
         : start \in {FindFrom(s, <<"{">>, 1)}, end \in {RFindChar(s, "}", Len(s))}})

\* _extract_first_json(text); text is None or a str, s is text.strip().
ExtractFirstJson(text) ==
    IF ~IsStr(text) \/ text.v = << >> THEN None
    ELSE The({
        IF s = << >> THEN None
        ELSE The({
            IF first.ret THEN first.val
            ELSE The({IF second.ret THEN second.val ELSE BracketScan(s).val
                      : second \in {FencedBlock(s)}})
            : first \in {DirectParse(s)}})
        : s \in {Strip(text.v)}})

(***************************************************************************)
(* Field names and schemas                                                 *)
(***************************************************************************)
K_x == <<"x">>
K_y == <<"y">>
K_paths == <<"p", "a", "t", "h", "s">>
K_points == <<"p", "o", "i", "n", "t", "s">>
K_start_point ==
    <<"s", "t", "a", "r", "t", "_", "p", "o", "i", "n", "t">>
K_end_point == <<"e", "n", "d", "_", "p", "o", "i", "n", "t">>
K_challenge_type ==
    <<"c", "h", "a", "l", "l", "e", "n", "g", "e", "_", "t", "y", "p", "e">>
K_challenge_prompt ==
    <<"c", "h", "a", "l", "l", "e", "n", "g", "e", "_", "p", "r", "o", "m", "p", "t">>

\* response_schema.model_fields of the three schemas the salvage stage knows
\* (provider.py 178, 188, 197) and of one it does not know.
DragDropFields == {K_challenge_prompt, K_paths}
AreaSelectFields == {K_challenge_prompt, K_points}
RouterFields == {K_challenge_prompt, K_challenge_type}
OtherFields == {<<"a">>}

Schemas == {"drag_drop", "area_select", "router", "other"}

ModelFields(schema) ==
    CASE schema = "drag_drop" -> DragDropFields
      [] schema = "area_select" -> AreaSelectFields
      [] schema = "router" -> RouterFields
      [] schema = "other" -> OtherFields

\* Two members of ChallengeTypeEnum (settings.py 267-276).
ImageDragSingle ==
    <<"i", "m", "a", "g", "e", "_", "d", "r", "a", "g", "_", "s", "i", "n", "g", "l", "e">>
ImageDragMulti ==
    <<"i", "m", "a", "g", "e", "_", "d", "r", "a", "g", "_", "m", "u", "l", "t", "i">>
ChallengeTypes == {ImageDragSingle, ImageDragMulti}

(***************************************************************************)
(* _extract_xy_pairs and _salvage_from_text                                *)
(***************************************************************************)
NoMatch == [found |-> FALSE, x |-> 0, y |-> 0, end |-> 0]

CharAt(s, i) == IF i >= 1 /\ i <= Len(s) THEN s[i] ELSE ""

\* _RE_XY_PAIR.match at position i (ignoring case): x, [:=], digits, a comma,
\* y, [:=], digits, with optional whitespace between them (provider.py 135-140).
XYMatchAt(s, i) ==
    IF Lower(CharAt(s, i)) # "x" THEN NoMatch
    ELSE The({
        IF CharAt(s, a) \notin {":", "="} THEN NoMatch
        ELSE The({The({
            IF xe = xd THEN NoMatch
            ELSE The({
                IF CharAt(s, c) # "," THEN NoMatch
                ELSE The({
                    IF Lower(CharAt(s, yy)) # "y" THEN NoMatch
                    ELSE The({
                        IF CharAt(s, b) \notin {":", "="} THEN NoMatch
                        ELSE The({The({
                            IF ye = yd THEN NoMatch
                            ELSE [found |-> TRUE, x |-> DigitsToInt(s, xd, xe - 1),
                                  y |-> DigitsToInt(s, yd, ye - 1), end |-> ye]
                            : ye \in {SkipDigits(s, yd)}})
                            : yd \in {SkipWs(s, b + 1)}})
                        : b \in {SkipWs(s, yy + 1)}})
                    : yy \in {SkipWs(s, c + 1)}})
                : c \in {SkipWs(s, xe)}})
            : xe \in {SkipDigits(s, xd)}})
            : xd \in {SkipWs(s, a + 1)}})
        : a \in {SkipWs(s, i + 1)}})

\* _RE_PAREN_PAIR.match at position i: ( digits , digits ) (provider.py 141).
ParenMatchAt(s, i) ==
    IF CharAt(s, i) # "(" THEN NoMatch
    ELSE The({The({
        IF xe = xd THEN NoMatch
        ELSE The({
            IF CharAt(s, c) # "," THEN NoMatch
            ELSE The({The({
                IF ye = yd THEN NoMatch
                ELSE The({
                    IF CharAt(s, z) # ")" THEN NoMatch
                    ELSE [found |-> TRUE, x |-> DigitsToInt(s, xd, xe - 1),
                          y |-> DigitsToInt(s, yd, ye - 1), end |-> z + 1]
                    : z \in {SkipWs(s, ye)}})
                : ye \in {SkipDigits(s, yd)}})
                : yd \in {SkipWs(s, c + 1)}})
            : c \in {SkipWs(s, xe)}})
        : xe \in {SkipDigits(s, xd)}})
        : xd \in {SkipWs(s, i + 1)}})

\* finditer: the pairs of the non-overlapping matches from position i on.
RECURSIVE XYFindIter(_, _)
XYFindIter(s, i) ==
    The({IF at = {} THEN << >>
         ELSE The({<< <<m.x, m.y>> >> \o XYFindIter(s, m.end)
                   : m \in {XYMatchAt(s, MinOf(at))}})
         : at \in {{j \in i..Len(s) : XYMatchAt(s, j).found}}})

RECURSIVE ParenFindIter(_, _)
ParenFindIter(s, i) ==
    The({IF at = {} THEN << >>
         ELSE The({<< <<m.x, m.y>> >> \o ParenFindIter(s, m.end)
                   : m \in {ParenMatchAt(s, MinOf(at))}})
         : at \in {{j \in i..Len(s) : ParenMatchAt(s, j).found}}})

\* A faulty variant of Uniq: repeated pairs are kept.
UniqKeepsAll(pairs, seen) == pairs

\* The loop over pairs with the set seen (provider.py 153-160).
RECURSIVE Uniq(_, _)
Uniq(pairs, seen) ==
    IF pairs = << >> THEN << >>
    ELSE IF Head(pairs) \in seen THEN Uniq(Tail(pairs), seen)
    ELSE <<Head(pairs)>> \o Uniq(Tail(pairs), seen \cup {Head(pairs)})

\* A faulty variant of ExtractXYPairs: the x=, y= family is not searched.
ExtractXYPairsParenOnly(text) ==
    IF ~IsStr(text) \/ text.v = << >> THEN << >>
    ELSE Uniq(ParenFindIter(text.v, 1), {})

\* _extract_xy_pairs(text)
ExtractXYPairs(text) ==
    IF ~IsStr(text) \/ text.v = << >> THEN << >>
    ELSE Uniq(XYFindIter(text.v, 1) \o ParenFindIter(text.v, 1), {})

\* str.strip("`"): the text without its leading and trailing backquotes.
StripBQ(s) ==
    The({IF at = {} THEN << >> ELSE SubSeq(s, MinOf(at), MaxOf(at))
         : at \in {{j \in 1..Len(s) : s[j] # BQ}}})

\* user_prompt or ""
PromptOrEmpty(user_prompt) ==
    IF IsStr(user_prompt) /\ user_prompt.v # << >> THEN user_prompt ELSE JStr(<< >>)

Point(p) == JObj((K_x :> JNum(p[1])) @@ (K_y :> JNum(p[2])))

\* A faulty variant of SalvageFromText: a schema with neither paths nor points
\* gets nothing.
SalvageFromTextCoordinatesOnly(text, schema, user_prompt) ==
    The({
        IF K_paths \in ModelFields(schema) THEN
            IF Len(xy_pairs) >= 2
            THEN JObj((K_challenge_prompt :> PromptOrEmpty(user_prompt)) @@
                      (K_paths :> JArr(<<JObj((K_start_point :> Point(xy_pairs[1])) @@
                                              (K_end_point :> Point(xy_pairs[2])))>>)))
            ELSE None
        ELSE IF K_points \in ModelFields(schema) THEN
            IF xy_pairs # << >>
            THEN JObj((K_challenge_prompt :> PromptOrEmpty(user_prompt)) @@
                      (K_points :> JArr([k \in 1..Len(xy_pairs) |-> Point(xy_pairs[k])])))
            ELSE None
        ELSE None
        : xy_pairs \in {ExtractXYPairs(text)}})

\* _salvage_from_text(text=, response_schema=, user_prompt=)
SalvageFromText(text, schema, user_prompt) ==
    The({
        IF K_paths \in ModelFields(schema) THEN
            IF Len(xy_pairs) >= 2
            THEN JObj((K_challenge_prompt :> PromptOrEmpty(user_prompt)) @@
                      (K_paths :> JArr(<<JObj((K_start_point :> Point(xy_pairs[1])) @@
                                              (K_end_point :> Point(xy_pairs[2])))>>)))
            ELSE None
        ELSE IF K_points \in ModelFields(schema) THEN
            IF xy_pairs # << >>
            THEN JObj((K_challenge_prompt :> PromptOrEmpty(user_prompt)) @@
                      (K_points :> JArr([k \in 1..Len(xy_pairs) |-> Point(xy_pairs[k])])))
            ELSE None
        ELSE IF K_challenge_type \in ModelFields(schema) /\ IsStr(text) THEN
            The({IF t # << >>
                 THEN JObj((K_challenge_prompt :> PromptOrEmpty(user_prompt)) @@
                           (K_challenge_type :> JStr(t)))
                 ELSE None
                 : t \in {Strip(StripBQ(Strip(text.v)))}})
        ELSE None
        : xy_pairs \in {ExtractXYPairs(text)}})

(***************************************************************************)
(* _normalize_for_schema and response_schema.model_validate                *)
(***************************************************************************)
\* parsed[key] = val
SetKey(parsed, key, val) == JObj((key :> val) @@ parsed.v)

\* provider.py 221-222: fill in a missing challenge_prompt.
NormPrompt(parsed, fields, user_prompt) ==
    IF K_challenge_prompt \in fields /\ K_challenge_prompt \notin DOMAIN parsed.v
    THEN SetKey(parsed, K_challenge_prompt, PromptOrEmpty(user_prompt))
    ELSE parsed

\* parsed.get("challenge_prompt", user_prompt or "")
PromptOf(parsed, user_prompt) ==
    IF K_challenge_prompt \in DOMAIN parsed.v THEN parsed.v[K_challenge_prompt]
    ELSE PromptOrEmpty(user_prompt)

\* provider.py 225-229: lift a flat {start_point, end_point} into paths.
NormPaths(parsed, fields, user_prompt) ==
    IF /\ K_paths \in fields
       /\ K_paths \notin DOMAIN parsed.v
       /\ {K_start_point, K_end_point} \subseteq DOMAIN parsed.v
    THEN JObj((K_challenge_prompt :> PromptOf(parsed, user_prompt)) @@
              (K_paths :> JArr(<<JObj((K_start_point :> parsed.v[K_start_point]) @@
                                      (K_end_point :> parsed.v[K_end_point]))>>)))
    ELSE parsed

\* A faulty variant of NormPoints: a flat object with x alone is lifted too,
\* its missing y filled in with 0.
NormPointsFillsY(parsed, fields, user_prompt) ==
    IF /\ K_points \in fields
       /\ K_points \notin DOMAIN parsed.v
       /\ K_x \in DOMAIN parsed.v
    THEN JObj((K_challenge_prompt :> PromptOf(parsed, user_prompt)) @@
              (K_points :> JArr(<<JObj((K_x :> parsed.v[K_x]) @@
                                       (K_y :> IF K_y \in DOMAIN parsed.v
                                               THEN parsed.v[K_y] ELSE JNum(0)))>>)))
    ELSE parsed

\* provider.py 232-236: lift a flat {x, y} into points.
NormPoints(parsed, fields, user_prompt) ==
    IF /\ K_points \in fields
       /\ K_points \notin DOMAIN parsed.v
       /\ {K_x, K_y} \subseteq DOMAIN parsed.v
    THEN JObj((K_challenge_prompt :> PromptOf(parsed, user_prompt)) @@
              (K_points :> JArr(<<JObj((K_x :> parsed.v[K_x]) @@
                                       (K_y :> parsed.v[K_y]))>>)))
    ELSE parsed

\* _normalize_for_schema(parsed, response_schema=, user_prompt=)
NormalizeForSchema(parsed, schema, user_prompt) ==
    IF IsDict(parsed)
    THEN The({The({The({NormPoints(c, fields, user_prompt)
                        : c \in {NormPaths(b, fields, user_prompt)}})
                   : b \in {NormPrompt(parsed, fields, user_prompt)}})
              : fields \in {ModelFields(schema)}})
    ELSE parsed

\* An int field in pydantic's lax mode: an integer, or a string of digits.
IntLike(x) ==
    \/ IsInt(x)
    \/ IsStr(x) /\ x.v # << >> /\ \A k \in 1..Len(x.v) : x.v[k] \in Digits

\* A SpatialPoint {x, y}
ValidPoint(p) ==
    /\ IsDict(p)
    /\ {K_x, K_y} \subseteq DOMAIN p.v
    /\ IntLike(p.v[K_x])
    /\ IntLike(p.v[K_y])

\* A SpatialPath {start_point, end_point}
ValidPath(p) ==
    /\ IsDict(p)
    /\ {K_start_point, K_end_point} \subseteq DOMAIN p.v
    /\ ValidPoint(p.v[K_start_point])
    /\ ValidPoint(p.v[K_end_point])

HasPrompt(parsed) ==
    K_challenge_prompt \in DOMAIN parsed.v /\ IsStr(parsed.v[K_challenge_prompt])

\* Whether response_schema.model_validate(parsed) returns (TRUE) or raises
\* ValidationError (FALSE), for the shapes of provider.py 178, 188 and 197.
ModelValidate(schema, parsed) ==
    /\ IsDict(parsed)
    /\ CASE schema = "drag_drop" ->
              /\ HasPrompt(parsed)
              /\ K_paths \in DOMAIN parsed.v
              /\ IsList(parsed.v[K_paths])
              /\ \A k \in 1..Len(parsed.v[K_paths].v) : ValidPath(parsed.v[K_paths].v[k])
         [] schema = "area_select" ->
              /\ HasPrompt(parsed)
              /\ K_points \in DOMAIN parsed.v
              /\ IsList(parsed.v[K_points])
              /\ \A k \in 1..Len(parsed.v[K_points].v) : ValidPoint(parsed.v[K_points].v[k])
         [] schema = "router" ->
              /\ HasPrompt(parsed)
              /\ K_challenge_type \in DOMAIN parsed.v
              /\ IsStr(parsed.v[K_challenge_type])
              /\ parsed.v[K_challenge_type].v \in ChallengeTypes
         [] schema = "other" ->
              /\ <<"a">> \in DOMAIN parsed.v
              /\ IntLike(parsed.v[<<"a">>])

(***************************************************************************)
(* HTTP responses and response_json_checked (http.py)                      *)
(***************************************************************************)
CT_json ==
    <<"a", "p", "p", "l", "i", "c", "a", "t", "i", "o", "n", "/", "j", "s",
      "o", "n">>
CT_json_charset ==
    <<"A", "p", "p", "l", "i", "c", "a", "t", "i", "o", "n", "/", "J", "S",
      "O", "N", ";", " ", "c", "h", "a", "r", "s", "e", "t", "=", "u",
      "t", "f", "-", "8">>
CT_html ==
    <<"t", "e", "x", "t", "/", "h", "t", "m", "l">>

\* The content-type headers of the model; << >> is a response without the header.
ContentTypes == {CT_json, CT_json_charset, CT_html, << >>}

StatusCodes == {200, 204, 302, 399, 400, 404, 500, 599}

\* The status codes and headers of the exchanges of a completion call.
WireStatusCodes == {200, 500}
WireContentTypes == {CT_json, CT_html}

\* p in s
Contains(s, p) == FindFrom(s, p, 1) # 0

K_choices == <<"c", "h", "o", "i", "c", "e", "s">>
K_message == <<"m", "e", "s", "s", "a", "g", "e">>
K_content == <<"c", "o", "n", "t", "e", "n", "t">>
K_text == <<"t", "e", "x", "t">>
K_type == <<"t", "y", "p", "e">>
K_candidates == <<"c", "a", "n", "d", "i", "d", "a", "t", "e", "s">>
K_parts == <<"p", "a", "r", "t", "s">>
K_error == <<"e", "r", "r", "o", "r">>

(***************************************************************************)
(* The texts a model answers with                                          *)
(***************************************************************************)
\* text[:500]
SnippetLen == 500
Snippet(s) == SubSeq(s, 1, IF Len(s) < SnippetLen THEN Len(s) ELSE SnippetLen)

\* A bare classification label.
T_label ==
    <<"i", "m", "a", "g", "e", "_", "d", "r", "a", "g", "_", "s", "i", "n",
      "g", "l", "e">>
\* Two coordinate pairs, one of each family.
T_pairs ==
    <<"x", "=", "1", ",", " ", "y", "=", "2", " ", "(", "3", ",", "4", ")">>
\* One coordinate pair of the parenthesised family.
T_paren ==
    <<"(", "3", ",", "4", ")">>
\* A flat point object.
T_obj_xy ==
    <<"{", "\"", "x", "\"", ":", "1", ",", "\"", "y", "\"", ":", "2", "}">>
\* A flat path object.
T_obj_path ==
    <<"{", "\"", "s", "t", "a", "r", "t", "_", "p", "o", "i", "n", "t",
      "\"", ":", "{", "\"", "x", "\"", ":", "1", ",", "\"", "y", "\"",
      ":", "2", "}", ",", "\"", "e", "n", "d", "_", "p", "o", "i", "n",
      "t", "\"", ":", "{", "\"", "x", "\"", ":", "3", ",", "\"", "y",
      "\"", ":", "4", "}", "}">>
\* A router result.
T_obj_type ==
    <<"{", "\"", "c", "h", "a", "l", "l", "e", "n", "g", "e", "_", "t",
      "y", "p", "e", "\"", ":", "\"", "i", "m", "a", "g", "e", "_",
      "d", "r", "a", "g", "_", "s", "i", "n", "g", "l", "e", "\"", "}">>
\* An object of no schema the salvage stage knows, and a coordinate pair after it.
T_obj_a_paren ==
    <<"{", "\"", "a", "\"", ":", "1", "}", " ", "(", "3", ",", "4", ")">>
\* A fenced block that holds the JSON text null, and a flat point object after it.
T_null_then_obj ==
    <<BQ, BQ, BQ, "j", "s", "o", "n", "\n", "n", "u", "l", "l", "\n", BQ,
      BQ, BQ, "{", "\"", "x", "\"", ":", "1", ",", "\"", "y", "\"", ":", "2", "}">>
\* A fenced block that holds a flat point object.
T_fence_obj ==
    <<BQ, BQ, BQ, "j", "s", "o", "n", "\n", "{", "\"", "x", "\"", ":", "1",
      ",", "\"", "y", "\"", ":", "2", "}", "\n", BQ, BQ, BQ>>
T_space == <<" ">>
\* Prose longer than the snippet of an UnparsableOutput error.
T_long == [k \in 1..(SnippetLen + 1) |-> "z"]
\* Backquotes and whitespace and nothing else.
T_ticks == <<BQ, " ", BQ>>
\* A word with backquotes and whitespace on both sides of it.
T_ticked == <<BQ, " ", BQ, "o", "k", BQ, "\n", BQ>>

Fragments ==
    <<T_label, T_pairs, T_paren, T_obj_xy, T_obj_path, T_obj_type, T_obj_a_paren,
      T_null_then_obj, T_fence_obj, T_space, T_long, T_ticks, T_ticked>>

\* The most fragments in the text of a primary (or retried) answer.
MaxFrags == 1

\* The texts made of at most n fragments.
RECURSIVE TextsUpTo(_)
TextsUpTo(n) ==
    IF n = 0 THEN {<< >>}
    ELSE TextsUpTo(n - 1) \cup
         {t \o Fragments[k] : t \in TextsUpTo(n - 1), k \in 1..Len(Fragments)}

\* The texts of a primary (or retried) answer.
Texts == TextsUpTo(MaxFrags)
\* The texts of a repair answer: nothing, or one fragment.
RepairTexts == {<< >>} \cup {Fragments[k] : k \in 1..Len(Fragments)}

(***************************************************************************)
(* Response bodies and their decoding (resp.json())                        *)
(***************************************************************************)
\* A body is [kind, text]: the bytes on the wire, named by what they hold.
\*   empty       no bytes
\*   malformed   bytes that are no JSON document
\*   list        the JSON array []
\*   error_obj   {"error": "x"}
\*   no_choices  {"choices": []}
\*   bad_choice  {"choices": ["x"]}
\*   chat_null   {"choices": [{"message": {"content": null}}]}
\*   chat_image  {"choices": [{"message": {"content": [{"type": "image"}]}}]}
\*   chat_str    {"choices": [{"message": {"content": text}}]}
\*   chat_parts  {"choices": [{"message": {"content":
\*                 [{"text": "x=1, y=2"}, {"type": "image"}, {"text": text}]}}]}
\*   gemini      {"candidates": [{"content": {"parts": [{"text": text}]}}]}
PlainBodyKinds ==
    {"empty", "malformed", "list", "error_obj", "no_choices", "bad_choice",
     "chat_null", "chat_image"}

Bodies(texts) ==
    {[kind |-> k, text |-> << >>] : k \in PlainBodyKinds}
    \cup {[kind |-> k, text |-> t] : k \in {"chat_str", "gemini"}, t \in texts}
    \cup {[kind |-> "chat_parts", text |-> t] : t \in {T_pairs, T_space}}

Obj1(key, val) == JObj(key :> val)

ImagePart == Obj1(K_type, JStr(<<"i", "m", "a", "g", "e">>))

ChatBody(content) ==
    Obj1(K_choices, JArr(<<Obj1(K_message, Obj1(K_content, content))>>))

\* resp.json(): [ok |-> FALSE] stands for json.JSONDecodeError.
DecodeBody(body) ==
    CASE body.kind \in {"empty", "malformed"} -> [ok |-> FALSE, val |-> None]
      [] body.kind = "list" -> [ok |-> TRUE, val |-> JArr(<< >>)]
      [] body.kind = "error_obj" -> [ok |-> TRUE, val |-> Obj1(K_error, JStr(<<"x">>))]
      [] body.kind = "no_choices" -> [ok |-> TRUE, val |-> Obj1(K_choices, JArr(<< >>))]
      [] body.kind = "bad_choice" ->
            [ok |-> TRUE, val |-> Obj1(K_choices, JArr(<<JStr(<<"x">>)>>))]
      [] body.kind = "chat_null" -> [ok |-> TRUE, val |-> ChatBody(None)]
      [] body.kind = "chat_image" -> [ok |-> TRUE, val |-> ChatBody(JArr(<<ImagePart>>))]
      [] body.kind = "chat_str" -> [ok |-> TRUE, val |-> ChatBody(JStr(body.text))]
      [] body.kind = "chat_parts" ->
            [ok |-> TRUE,
             val |-> ChatBody(JArr(<<Obj1(K_text, JStr(T_paren)), ImagePart,
                                     Obj1(K_text, JStr(body.text))>>))]
      [] body.kind = "gemini" ->
            [ok |-> TRUE,
             val |-> Obj1(K_candidates,
                          JArr(<<Obj1(K_content,
                                      Obj1(K_parts,
                                           JArr(<<Obj1(K_text, JStr(body.text))>>)))>>))]

\* An HTTP response: status code, content-type header, body.
Responses(statuses, ctypes, texts) ==
    [status : statuses, ctype : ctypes, body : Bodies(texts)]

\* What response_json_checked does with a response: it returns data (kind "ok")
\* or raises exc.
Checked(kind, exc, d) == [kind |-> kind, exc |-> exc, data |-> d]

\* resp.is_error
IsError(status) == status >= 400 /\ status <= 599

\* A faulty variant of ResponseJsonChecked: the status of the response is not
\* looked at.
ResponseJsonCheckedAnyStatus(r) ==
    IF r.body.kind = "empty"
    THEN Checked("EmptyBody", "LLMHTTPError", None)
    ELSE IF ~Contains(LowerText(r.ctype), CT_json)
    THEN Checked("NonJSONResponse", "LLMHTTPError", None)
    ELSE The({IF ~decoded.ok
              THEN Checked("JSONDecodeError", "JSONDecodeError", None)
              ELSE Checked("ok", "none", decoded.val)
              : decoded \in {DecodeBody(r.body)}})

\* A faulty variant of ResponseJsonChecked: the content-type is looked at before
\* the body.
ResponseJsonCheckedHeaderFirst(r) ==
    IF ~Contains(LowerText(r.ctype), CT_json)
    THEN Checked("NonJSONResponse", "LLMHTTPError", None)
    ELSE IF r.body.kind = "empty"
    THEN Checked("EmptyBody", "LLMHTTPError", None)
    ELSE The({IF ~decoded.ok
              THEN Checked("JSONDecodeError", "JSONDecodeError", None)
              ELSE IF IsError(r.status)
              THEN Checked("HTTPError", "LLMHTTPError", None)
              ELSE Checked("ok", "none", decoded.val)
              : decoded \in {DecodeBody(r.body)}})

\* response_json_checked(resp)
ResponseJsonChecked(r) ==
    IF r.body.kind = "empty"
    THEN Checked("EmptyBody", "LLMHTTPError", None)
    ELSE IF ~Contains(LowerText(r.ctype), CT_json)
    THEN Checked("NonJSONResponse", "LLMHTTPError", None)
    ELSE The({IF ~decoded.ok
              THEN Checked("JSONDecodeError", "JSONDecodeError", None)
              ELSE IF IsError(r.status)
              THEN Checked("HTTPError", "LLMHTTPError", None)
              ELSE Checked("ok", "none", decoded.val)
              : decoded \in {DecodeBody(r.body)}})

\* How often response_json_checked(resp) calls resp.json() (line 68): the two
\* raises of lines 50 and 62 come before it.
JsonCalls(r) ==
    IF r.body.kind = "empty" THEN 0
    ELSE IF ~Contains(LowerText(r.ctype), CT_json) THEN 0
    ELSE 1

\* What the exception raised by response_json_checked(resp) holds: the values
\* formatted into the message of the LLMHTTPError (lines 50, 62-64 and 91), and
\* the document of the JSONDecodeError raised again at line 80.  The decoded
\* body of lines 83-90 goes to the log only.
RaisedWith(r) ==
    IF r.body.kind = "empty" THEN << >>
    ELSE IF ~Contains(LowerText(r.ctype), CT_json)
    THEN [status_code |-> JNum(r.status), content_type |-> JStr(LowerText(r.ctype))]
    ELSE IF ~DecodeBody(r.body).ok THEN [doc |-> r.body]
    ELSE IF IsError(r.status) THEN [status_code |-> JNum(r.status)]
    ELSE << >>

(***************************************************************************)
(* Text extraction from a decoded body (provider.py 78-114)                *)
(***************************************************************************)
\* Python truth value
Truthy(x) ==
    CASE x.t = "null" -> FALSE
      [] x.t = "bool" -> x.v
      [] x.t = "num" -> x.v # 0
      [] x.t \in {"str", "arr"} -> Len(x.v) # 0
      [] x.t = "obj" -> DOMAIN x.v # {}

\* x or default
Or(x, default) == IF Truthy(x) THEN x ELSE default

\* The value of an expression that may raise: [ok |-> FALSE] is the exception.
Ok(x) == [ok |-> TRUE, val |-> x]
Raised == [ok |-> FALSE, val |-> None]

\* seq[0] if seq else {}
FirstOrEmpty(seq) ==
    IF ~Truthy(seq) THEN Ok(JObj(EmptyObj))
    ELSE IF IsList(seq) THEN Ok(seq.v[1])
    ELSE IF IsStr(seq) THEN Ok(JStr(<<seq.v[1]>>))
    ELSE Raised

\* d.get(key) or default, which raises when d is no dict
GetOr(d, key, default) ==
    IF ~d.ok \/ ~IsDict(d.val) THEN Raised
    ELSE Ok(Or(Get(d.val, key), default))

\* The text fields of the dict parts of a list, in order.
RECURSIVE PartTexts(_)
PartTexts(parts) ==
    IF parts = << >> THEN << >>
    ELSE (IF IsDict(Head(parts)) /\ IsStr(Get(Head(parts), K_text))
          THEN <<Get(Head(parts), K_text).v>>
          ELSE << >>) \o PartTexts(Tail(parts))

\* "\n".join(texts)
RECURSIVE JoinLines(_)
JoinLines(texts) ==
    IF texts = << >> THEN << >>
    ELSE IF Len(texts) = 1 THEN texts[1]
    ELSE texts[1] \o <<"\n">> \o JoinLines(Tail(texts))

\* "\n".join(texts).strip() if texts else None
JoinedOrNone(texts) == IF texts = << >> THEN None ELSE JStr(Strip(JoinLines(texts)))

\* _extract_text_from_openai_chat_completions(data)
ExtractTextOpenAI(d) ==
    The({The({The({
        IF ~message.ok \/ ~IsDict(message.val) THEN None
        ELSE The({IF IsStr(content) THEN content
                  ELSE IF IsList(content) THEN JoinedOrNone(PartTexts(content.v))
                  ELSE None
                  : content \in {Get(message.val, K_content)}})
        : message \in {GetOr(first, K_message, JObj(EmptyObj))}})
        : first \in {IF choices.ok THEN FirstOrEmpty(choices.val) ELSE Raised}})
        : choices \in {GetOr(Ok(d), K_choices, JArr(<< >>))}})

\* _extract_text_from_gemini_native(data)
ExtractTextGemini(d) ==
    The({The({The({
        IF ~parts.ok \/ ~IsList(parts.val) THEN None
        ELSE JoinedOrNone(PartTexts(parts.val.v))
        : parts \in {GetOr(GetOr(first, K_content, JObj(EmptyObj)), K_parts, JArr(<< >>))}})
        : first \in {IF candidates.ok THEN FirstOrEmpty(candidates.val) ELSE Raised}})
        : candidates \in {GetOr(Ok(d), K_candidates, JArr(<< >>))}})

(***************************************************************************)
(* URLs: join_url and the path tests (url.py)                              *)
(***************************************************************************)
Letters ==
    {"a", "b", "c", "d", "e", "f", "g", "h", "i", "j", "k", "l", "m", "n",
        "o", "p",
     "q", "r", "s", "t", "u", "v", "w", "x", "y", "z"}

\* urllib.parse.scheme_chars
SchemeChars == Letters \cup Digits \cup {"+", "-", "."}

\* urllib.parse.uses_netloc, as far as the model's schemes go
UsesNetloc == {<<"h", "t", "t", "p">>, <<"h", "t", "t", "p", "s">>}

\* The first index from i on of a character of cs in s; Len(s) + 1 when none.
IndexOfAny(s, cs, i) ==
    MinOf({j \in i..(Len(s) + 1) : j = Len(s) + 1 \/ s[j] \in cs})

\* s[i:]
From(s, i) == SubSeq(s, i, Len(s))

\* A faulty variant of RStripSlash: the slashes at the end stay.
RStripSlashNot(s) == s

\* s.rstrip("/")
RStripSlash(s) ==
    SubSeq(s, 1, MaxOf({j \in 0..Len(s) : j = 0 \/ s[j] # "/"}))

\* s.strip("/")
StripSlash(s) ==
    The({SubSeq(r, MinOf({j \in 1..(Len(r) + 1) : j = Len(r) + 1 \/ r[j] # "/"}),
                Len(r))
         : r \in {RStripSlash(s)}})

\* urlsplit(url): the scheme is what stands before the first colon when it is
\* made of scheme characters, the netloc follows "//", then the fragment and
\* the query are cut off and the path is what is left.
UrlSplit(url) ==
    The({The({The({The({The({The({The({
        [scheme |-> IF hasScheme THEN LowerText(SubSeq(u, 1, colon - 1)) ELSE << >>,
         netloc |-> IF hasNetloc THEN SubSeq(rest, 3, delim - 1) ELSE << >>,
         path |-> SubSeq(rest, delim, IndexOfAny(rest, {"?", "#"}, delim) - 1),
         query |-> IF IndexOfAny(rest, {"?"}, delim) < hash
                   THEN SubSeq(rest, IndexOfAny(rest, {"?"}, delim) + 1, hash - 1)
                   ELSE << >>,
         fragment |-> From(rest, hash + 1)]
        : hash \in {IndexOfAny(rest, {"#"}, delim)}})
        : delim \in {IF hasNetloc THEN IndexOfAny(rest, {"/", "?", "#"}, 3)
                     ELSE 1}})
        : hasNetloc \in {Len(rest) >= 2 /\ rest[1] = "/" /\ rest[2] = "/"}})
        : rest \in {IF hasScheme THEN From(u, colon + 1) ELSE u}})
        : hasScheme \in {/\ colon > 1
                         /\ colon <= Len(u)
                         /\ u[1] \in Letters
                         /\ \A k \in 1..(colon - 1) : u[k] \in SchemeChars}})
        : colon \in {IndexOfAny(u, {":"}, 1)}})
        : u \in {From(url, SkipWs(url, 1))}})

\* urlunsplit((scheme, netloc, path, query, fragment))
UrlUnsplit(scheme, netloc, path, query, fragment) ==
    The({(IF scheme # << >> THEN scheme \o <<":">> ELSE << >>)
         \o located
         \o (IF query # << >> THEN <<"?">> \o query ELSE << >>)
         \o (IF fragment # << >> THEN <<"#">> \o fragment ELSE << >>)
         : located \in {
             IF \/ netloc # << >>
                \/ /\ scheme \in UsesNetloc
                   /\ ~(Len(path) >= 2 /\ path[1] = "/" /\ path[2] = "/")
             THEN <<"/", "/">> \o netloc
                  \o (IF path # << >> /\ path[1] # "/" THEN <<"/">> ELSE << >>)
                  \o path
             ELSE path}})

\* A faulty variant of PosixJoin: the last part replaces the base path, as
\* it would had it kept its leading slash.
PosixJoinDropsBase(a, ps) ==
    IF ps = << >> THEN a ELSE <<"/">> \o ps[Len(ps)]

\* posixpath.join(a, *ps)
RECURSIVE PosixJoin(_, _)
PosixJoin(a, ps) ==
    IF ps = << >> THEN a
    ELSE PosixJoin(IF Head(ps) # << >> /\ Head(ps)[1] = "/" THEN Head(ps)
                   ELSE IF a = << >> \/ a[Len(a)] = "/" THEN a \o Head(ps)
                   ELSE a \o <<"/">> \o Head(ps),
                   Tail(ps))

\* Line 27: the paths without their outer slashes, the empty ones dropped.
RECURSIVE CleanParts(_)
CleanParts(paths) ==
    IF paths = << >> THEN << >>
    ELSE (IF StripSlash(Head(paths)) = << >> THEN << >>
          ELSE <<StripSlash(Head(paths))>>)
         \o CleanParts(Tail(paths))

\* join_url(base_url, *paths): Raised is the ValueError of line 22.
JoinUrl(base_url, paths) ==
    IF Strip(base_url) = << >> THEN Raised
    ELSE The({The({
        Ok(UrlUnsplit(parts.scheme, parts.netloc,
                      IF parts.scheme # << >> /\ parts.netloc # << >>
                         /\ (new_path = << >> \/ new_path[1] # "/")
                      THEN <<"/">> \o new_path
                      ELSE new_path,
                      parts.query, parts.fragment))
        : new_path \in {PosixJoin(RStripSlash(parts.path), CleanParts(paths))}})
        : parts \in {UrlSplit(Strip(base_url))}})

\* path.split("/") from the index i on, the empty segments dropped
RECURSIVE Segments(_, _)
Segments(path, i) ==
    IF i > Len(path) THEN << >>
    ELSE The({(IF j = i THEN << >> ELSE <<SubSeq(path, i, j - 1)>>)
              \o Segments(path, j + 1)
              : j \in {IndexOfAny(path, {"/"}, i)}})

\* _path_segments(url)
PathSegments(url) == Segments(UrlSplit(url).path, 1)

P_v1beta == <<"v", "1", "b", "e", "t", "a">>
P_openai == <<"o", "p", "e", "n", "a", "i">>
P_models == <<"m", "o", "d", "e", "l", "s">>

\* A faulty variant of HasV1beta: v1beta anywhere in the URL counts.
HasV1betaSubstring(url) == Contains(url, P_v1beta)

\* has_v1beta(url)
HasV1beta(url) ==
    \E i \in 1..Len(PathSegments(url)) : PathSegments(url)[i] = P_v1beta

\* has_v1beta_openai(url)
HasV1betaOpenai(url) ==
    \E i \in 1..(Len(PathSegments(url)) - 1) :
        PathSegments(url)[i] = P_v1beta /\ PathSegments(url)[i + 1] = P_openai

(***************************************************************************)
(* HcaptchaLLMProvider.generate_with_images (provider.py 273-481)          *)
(*                                                                         *)
(* One call on one client.  The coroutine runs without interruption        *)
(* between its awaits, so each action is the code from one await to the    *)
(* next: the call up to the first request, and the arrival of the answer   *)
(* to the primary request, to the downgrade retry and to the repair        *)
(* request.  The call is made without images and without a description.    *)
(***************************************************************************)
VARIABLES
    mode,                \* self._mode
    schema,              \* response_schema
    user_prompt,         \* user_prompt: None or a str
    last_response_json,  \* self._last_response_json
    last_response_text,  \* self._last_response_text
    pc,                  \* "idle", "primary", "retry", "repair", "returned",
                         \* "raised" and, for preflight_llm, "probe_idle",
                         \* "probe", "probe_returned", "probe_raised", for
                         \* join_url "join_idle", "joined", and for
                         \* cache_response "cache_idle", "cache_done", and
                         \* for the URL builders "resolve_idle", "models_url",
                         \* "completion_url", "root", "root_again" and
                         \* "models_raised", "completion_raised", "root_raised",
                         \* and for the extraction functions "extract_idle",
                         \* "extracted", "salvaged", "parsed", and for
                         \* _normalize_for_schema "normalize_idle",
                         \* "normalized", for EpicAuthorization.invoke
                         \* "invoke_idle", "loop", "login", "final", and for
                         \* collect_weekly_games "collect", "cart",
                         \* "purchase", "checkout", "wait_for_url", "verify"
    sent,                \* the requests posted so far: [kind, payload]
    outcomes,            \* how each request answered so far ended: "ok" or the failure
    data,                \* the local data
    text,                \* the local text
    text2,               \* the local text2
    parsed,              \* the local parsed before _normalize_for_schema
    validation,          \* what lines 467-481 did
    result,              \* the value returned
    error,               \* the exception raised
    resp,                \* the response handed to response_json_checked
    checked,             \* what response_json_checked did with resp
    api_key,             \* self._api_key, or the api_key of preflight_llm
    base_url,            \* self._base_url, or the base_url of preflight_llm
    model,               \* self._model
    url,                 \* the URL of the request, or what join_url gave
    paths,               \* the *paths of join_url
    disk,                \* the file cache_response writes, and how its call ended
    json_stage,          \* the stage at which _extract_first_json returned
    xy_pairs,            \* what _extract_xy_pairs returned
    attempt,             \* the loop counter of EpicAuthorization.invoke, or the
                         \* number of the run tenacity makes of collect_weekly_games
    events,              \* what the service call did so far, in order
    promotions,          \* the url of each promotion handed to collect_weekly_games
    idx,                 \* the position of a loop in urls or in promotions
    unverified_claims,   \* self._unverified_claims
    verify_failed,       \* the local verify_failed
    has_cart_items       \* the local has_pending_cart_items / has_cart_items

vars ==
    <<mode, schema, user_prompt, last_response_json, last_response_text, pc,
      sent, outcomes, data, text, text2, parsed, validation, result, error,
      resp, checked, api_key, base_url, model, url, paths, disk, json_stage, xy_pairs,
      attempt, events, promotions, idx, unverified_claims, verify_failed,
      has_cart_items>>

\* The variables of the LLM client, and those of the two services
\* (app/services), which have nothing in common.
llm ==
    <<mode, schema, user_prompt, last_response_json, last_response_text,
      sent, outcomes, data, text, text2, parsed, validation,
      resp, checked, api_key, base_url, model, url, paths, disk, json_stage, xy_pairs>>
service ==
    <<attempt, events, promotions, idx, unverified_claims, verify_failed,
      has_cart_items>>

\* No service call is under way.
NoService ==
    /\ attempt = 0
    /\ events = << >>
    /\ promotions = << >>
    /\ idx = 0
    /\ unverified_claims = << >>
    /\ verify_failed = << >>
    /\ has_cart_items = FALSE

\* disk.dir: the parent directory of the cache file exists; disk.file: what the
\* file holds; disk.call: how the call of cache_response ended.
NoFile == [written |-> "nothing"]
NoDisk == [dir |-> FALSE, file |-> NoFile, call |-> "none"]

Modes == {"openai", "gemini_native", "gemini_openai"}
OpenAIModes == {"openai", "gemini_openai"}

UserPrompts == {None, JStr(<<"g", "o">>)}

\* What an earlier call on the same client left in the cache.
StaleText == JStr(T_paren)
StaleJson == ChatBody(StaleText)

NoError == [exc |-> "none", what |-> "none", snippet |-> << >>]
Error(exc, what, snippet) == [exc |-> exc, what |-> what, snippet |-> snippet]

\* validation.first: the value handed to the first model_validate (None before);
\* validation.salvages: how often line 474 ran; validation.salvaged: what it gave.
NoValidation == [first |-> None, salvages |-> 0, salvaged |-> None]

NoResp == [status |-> 0, ctype |-> << >>, body |-> [kind |-> "none", text |-> << >>]]
NotChecked == Checked("none", "none", None)

\* The payload of the primary request (provider.py 332-339, 358-365).
BuildPayload(m, prompt) ==
    IF m \in OpenAIModes
    THEN [model |-> "model",
          messages |-> <<"system:json_instruction",
                         IF Truthy(prompt) THEN "user:user_prompt+json_instruction"
                         ELSE "user:json_instruction">>,
          temperature |-> 0,
          response_format |-> "json_object"]
    ELSE [contents |-> IF Truthy(prompt) THEN "user:user_prompt+json_instruction"
                       ELSE "user:json_instruction",
          generationConfig |-> "application/json",
          systemInstruction |-> "json_instruction"]

\* payload2 = dict(payload); payload2.pop("response_format", None)
DowngradePayload(payload) ==
    [k \in DOMAIN payload \ {"response_format"} |-> payload[k]]

\* The payload of the repair request (provider.py 426-447); repair_prompt holds
\* the schema and the text to convert.
BuildRepairPayload(m, sc, t) ==
    IF m \in OpenAIModes
    THEN [model |-> "model",
          messages |-> <<"system:strict_json_converter", <<"user:repair_prompt", sc, t>> >>,
          temperature |-> 0,
          response_format |-> "json_object"]
    ELSE [contents |-> <<"user:repair_prompt", sc, t>>,
          generationConfig |-> "application/json",
          systemInstruction |-> "strict_json_converter"]

Request(kind, payload) == [kind |-> kind, payload |-> payload]

(***************************************************************************)
(* The URLs of the three modes (endpoints.py); Raised is a ValueError       *)
(***************************************************************************)
\* build_openai_models_url(base_url)
BuildOpenaiModelsUrl(base) == JoinUrl(base, <<P_models>>)

\* build_openai_chat_completions_url(base_url)
BuildOpenaiChatCompletionsUrl(base) == JoinUrl(base, <<<<"c", "h", "a", "t",
    "/", "c", "o", "m", "p", "l", "e", "t", "i", "o", "n", "s">>>>)

\* build_gemini_native_models_url(root)
BuildGeminiNativeModelsUrl(root) ==
    IF HasV1betaOpenai(root) THEN Raised
    ELSE IF HasV1beta(root) THEN JoinUrl(root, <<P_models>>)
    ELSE JoinUrl(root, <<<<"v", "1", "b", "e", "t", "a", "/", "m", "o", "d",
        "e", "l", "s">>>>)

\* build_gemini_native_generate_content_url(root, model)
BuildGeminiNativeGenerateContentUrl(root, mdl) ==
    IF HasV1betaOpenai(root) THEN Raised
    ELSE IF HasV1beta(root)
    THEN JoinUrl(root, <<<<"m", "o", "d", "e", "l", "s",
        "/">> \o mdl \o <<":", "g", "e", "n", "e", "r", "a", "t", "e", "C",
            "o", "n", "t", "e", "n", "t">>>>)
    ELSE JoinUrl(root, <<P_v1beta, <<"m", "o", "d", "e", "l", "s",
        "/">> \o mdl \o <<":", "g", "e", "n", "e", "r", "a", "t", "e", "C",
            "o", "n", "t", "e", "n", "t">>>>)

\* build_gemini_openai_base_url(root)
BuildGeminiOpenaiBaseUrl(root) ==
    IF HasV1betaOpenai(root) THEN Ok(root)
    ELSE IF HasV1beta(root) THEN JoinUrl(root, <<P_openai>>)
    ELSE JoinUrl(root, <<<<"v", "1", "b", "e", "t", "a", "/", "o", "p", "e",
        "n", "a", "i">>>>)

\* build_gemini_openai_models_url(root)
BuildGeminiOpenaiModelsUrl(root) ==
    IF BuildGeminiOpenaiBaseUrl(root).ok
    THEN JoinUrl(BuildGeminiOpenaiBaseUrl(root).val, <<P_models>>)
    ELSE Raised

\* build_gemini_openai_chat_completions_url(root)
BuildGeminiOpenaiChatCompletionsUrl(root) ==
    IF BuildGeminiOpenaiBaseUrl(root).ok
    THEN JoinUrl(BuildGeminiOpenaiBaseUrl(root).val, <<<<"c", "h", "a", "t",
        "/", "c", "o", "m", "p", "l", "e", "t", "i", "o", "n", "s">>>>)
    ELSE Raised

\* Lines 304-309 and 344: the URL the completion request is posted to.
CompletionUrl(m, base, mdl) ==
    IF m = "openai" THEN BuildOpenaiChatCompletionsUrl(base)
    ELSE IF m = "gemini_openai" THEN BuildGeminiOpenaiChatCompletionsUrl(base)
    ELSE BuildGeminiNativeGenerateContentUrl(base, mdl)

\* A faulty variant of ConfigError: the model name is not looked at.
ConfigErrorModelUnchecked(m, key, base, mdl) ==
    IF key = << >> THEN "ApiKeyEmpty"
    ELSE IF base = << >> THEN "BaseUrlEmpty"
    ELSE IF m = "gemini_native" /\ HasV1betaOpenai(base) THEN "IncompatiblePath"
    ELSE IF CompletionUrl(m, base, mdl).ok THEN "none"
    ELSE "BaseUrlEmpty"

\* Lines 282-368: the ValueError generate_with_images raises before it sends
\* anything, "none" when the configuration lets the request go out.
ConfigError(m, key, base, mdl) ==
    IF key = << >> THEN "ApiKeyEmpty"
    ELSE IF base = << >> THEN "BaseUrlEmpty"
    ELSE IF m \in OpenAIModes
    THEN (IF CompletionUrl(m, base, mdl).ok THEN "none" ELSE "BaseUrlEmpty")
    ELSE IF m = "gemini_native"
    THEN (IF mdl = << >> THEN "ModelEmpty"
          ELSE IF HasV1betaOpenai(base) THEN "IncompatiblePath"
          ELSE IF CompletionUrl(m, base, mdl).ok THEN "none"
          ELSE "BaseUrlEmpty")
    ELSE "UnsupportedMode"

\* preflight.py 45-55: the URL preflight_llm gets.
ModelsUrl(m, base) ==
    IF m = "openai" THEN BuildOpenaiModelsUrl(base)
    ELSE IF m = "gemini_native" THEN BuildGeminiNativeModelsUrl(base)
    ELSE BuildGeminiOpenaiModelsUrl(base)

\* preflight.py 31-55: the ValueError preflight_llm raises before it sends
\* anything, "none" when the request goes out.
ProbeConfigError(m, key, base) ==
    IF base = << >> THEN "BaseUrlEmpty"
    ELSE IF key = << >> THEN "ApiKeyEmpty"
    ELSE IF m \notin Modes THEN "UnsupportedMode"
    ELSE IF m = "gemini_native" /\ HasV1betaOpenai(base) THEN "IncompatiblePath"
    ELSE IF ModelsUrl(m, base).ok THEN "none"
    ELSE "BaseUrlEmpty"

\* The configurations of the model: keys, model names and base URLs.
ApiKeys == {<< >>, <<"k">>}
ModelNames == {<< >>, <<"m">>}
BasePrefix == <<"h", "t", "t", "p", ":", "/", "/", "h">>
BasePaths ==
    {<< >>, <<"/">>, <<"/", "p">>, <<"/", "p", "/">>, <<"/", "p", "/",
        "/">>, <<"/", "/", "p">>, <<"/", "p", "/", "/", "q", "/">>, <<"/",
            "v", "1", "b", "e", "t", "a">>,
     <<"/", "v", "1", "b", "e", "t", "a", "/">>, <<"/", "v", "1", "b", "e",
         "t", "a", "/", "o", "p", "e", "n", "a", "i">>, <<"/", "v", "1", "b",
             "e", "t", "a", "/", "o", "p", "e", "n", "a", "i", "/">>, <<"/",
                 "p", "/", "v", "1", "b", "e", "t", "a", "/", "x">>,
     <<"/", "o", "p", "e", "n", "a", "i", "/", "v", "1", "b", "e", "t",
         "a">>, <<"/", "v", "1", "b", "e", "t", "a", "/", "p", "/", "o", "p",
             "e", "n", "a", "i">>}
BaseSuffixes == {<< >>, <<"?", "q", "=", "/">>, <<"#", "f">>}
AbsoluteBases == {BasePrefix \o p \o q : p \in BasePaths, q \in BaseSuffixes}
BaseUrls == AbsoluteBases \cup {<< >>, <<" ">>, <<" ", "h", "t", "t", "p",
    ":", "/", "/", "h", "/", "p", " ">>, <<"h", "/", "p", "/">>, <<"/", "p">>}
ConfigBases ==
    {<< >>, <<" ">>, <<"h", "t", "t", "p", ":", "/", "/", "h">>, <<"h", "t",
        "t", "p", ":", "/", "/", "h", "/", "p", "/">>, <<"h", "t", "t", "p",
            ":", "/", "/", "h", "/", "v", "1", "b", "e", "t", "a">>,
     <<"h", "t", "t", "p", ":", "/", "/", "h", "/", "v", "1", "b", "e", "t",
         "a", "/", "o", "p", "e", "n", "a", "i">>, <<"h", "t", "t", "p", ":",
             "/", "/", "h", "/", "p", "/", "v", "1", "b", "e", "t", "a", "/",
                 "o", "p", "e", "n", "a", "i", "/">>}
ValidBase == <<"h", "t", "t", "p", ":", "/", "/", "h", "/", "p">>

(***************************************************************************)
(* One HTTP exchange: _request_json (provider.py 372-375)                  *)
(***************************************************************************)
TransportErrors == {"Timeout", "ConnectError"}

\* What client.post does: it raises an httpx.HTTPError or gives a response.
Exchanges(texts) ==
    {[transport |-> e, resp |-> NoResp] : e \in TransportErrors}
    \cup {[transport |-> "ok", resp |-> r] :
              r \in Responses(WireStatusCodes, WireContentTypes, texts)}

\* _request_json(_payload) on the exchange x
RequestJson(x) ==
    IF x.transport # "ok" THEN Checked(x.transport, "httpx.HTTPError", None)
    ELSE ResponseJsonChecked(x.resp)

\* The exceptions the handler of line 380 catches.
CaughtAtPrimary == {"LLMHTTPError", "httpx.HTTPError"}

\* A faulty variant of ShouldDowngrade: the retry does not depend on the mode
\* and the payload.
ShouldDowngradeAlways(m, payload) == m \in Modes

\* Line 382: whether the failed primary request is retried.
ShouldDowngrade(m, payload) ==
    m \in OpenAIModes /\ "response_format" \in DOMAIN payload

\* _extract_text_from_...(data if isinstance(data, dict) else {})
ExtractText(m, d) ==
    IF m \in OpenAIModes
    THEN ExtractTextOpenAI(IF IsDict(d) THEN d ELSE JObj(EmptyObj))
    ELSE ExtractTextGemini(IF IsDict(d) THEN d ELSE JObj(EmptyObj))

\* Lines 407-411: _extract_first_json, then _salvage_from_text.
ParseOrSalvage(t, sc, prompt) ==
    The({IF ~IsNone(first) THEN first ELSE SalvageFromText(t, sc, prompt)
         : first \in {ExtractFirstJson(t)}})

(***************************************************************************)
(* The end of the call (provider.py 464-481)                               *)
(***************************************************************************)
Ending(p, res, err, val) == [pc |-> p, result |-> res, error |-> err, validation |-> val]

\* A faulty variant of UnparsableError: the snippet is cut from the repair text
\* when there is one.
UnparsableErrorOfRepair(t, t2) ==
    Error("ValueError", "UnparsableOutput", Snippet(IF IsStr(t2) THEN t2.v ELSE t.v))

\* Line 465: the error for a text nothing could be parsed from; t is the primary
\* text, t2 the repair text.
UnparsableError(t, t2) == Error("ValueError", "UnparsableOutput", Snippet(t.v))

\* A faulty variant of Revalidate: the salvaged candidate is returned as it is.
RevalidateUnchecked(sc, first, salvaged) ==
    Ending("returned", salvaged, NoError,
           [first |-> first, salvages |-> 1, salvaged |-> salvaged])

\* Line 480: return response_schema.model_validate(salvaged)
Revalidate(sc, first, salvaged) ==
    IF ModelValidate(sc, salvaged)
    THEN Ending("returned", salvaged, NoError,
                [first |-> first, salvages |-> 1, salvaged |-> salvaged])
    ELSE Ending("raised", None, Error("ValidationError", "salvaged", << >>),
                [first |-> first, salvages |-> 1, salvaged |-> salvaged])

\* A faulty variant of SalvageSource: the salvage reads the primary text.
SalvageSourcePrimary(cached, t, t2) == t

\* A faulty variant of SalvageSource: the salvage reads the cache as it was
\* when the response arrived, before lines 404 and 457 wrote to it.
SalvageSourceShared(cached, t, t2) == last_response_text

\* Lines 473-478: the text the salvage after a validation failure reads; cached
\* is self._last_response_text, t and t2 are the locals text and text2.
SalvageSource(cached, t, t2) == cached

\* Lines 471-481: the handler of the first ValidationError.
OnValidationError(sc, prompt, first, cached, t, t2) ==
    The({
        IF IsStr(source)
        THEN The({IF ~IsNone(salvaged) THEN Revalidate(sc, first, salvaged)
                  ELSE Ending("raised", None,
                              Error("ValidationError", "candidate", << >>),
                              [first |-> first, salvages |-> 1, salvaged |-> None])
                  : salvaged \in {SalvageFromText(source, sc, prompt)}})
        ELSE Ending("raised", None, Error("ValidationError", "candidate", << >>),
                    [first |-> first, salvages |-> 0, salvaged |-> None])
        : source \in {SalvageSource(cached, t, t2)}})

\* Lines 464-481 with the candidate p, the cache text cached and the locals t, t2.
Finish(p, sc, prompt, cached, t, t2) ==
    IF IsNone(p) THEN Ending("raised", None, UnparsableError(t, t2), NoValidation)
    ELSE The({IF ModelValidate(sc, first)
              THEN Ending("returned", first, NoError,
                          [first |-> first, salvages |-> 0, salvaged |-> None])
              ELSE OnValidationError(sc, prompt, first, cached, t, t2)
              : first \in {NormalizeForSchema(p, sc, prompt)}})

End(ending) ==
    \E f \in {ending} :
        /\ pc' = f.pc
        /\ result' = f.result
        /\ error' = f.error
        /\ validation' = f.validation

\* A faulty variant of Propagate: the failure is wrapped in a ValueError.
PropagateWrapped(out) ==
    /\ pc' = "raised"
    /\ error' = Error("ValueError", "RequestFailed", << >>)
    /\ UNCHANGED <<result, validation>>

\* A faulty variant of Propagate: the failure is swallowed and the call goes
\* on waiting for the request it has just seen fail.
PropagateSwallowed(out) ==
    /\ pc' = pc
    /\ UNCHANGED <<error, result, validation>>

\* raise: the exception of a failed request leaves the call.
Propagate(out) ==
    /\ pc' = "raised"
    /\ error' = Error(out.exc, out.kind, << >>)
    /\ UNCHANGED <<result, validation>>

(***************************************************************************)
(* The actions                                                             *)
(***************************************************************************)
Init ==
    /\ mode \in Modes
    /\ schema \in Schemas
    /\ user_prompt \in UserPrompts
    /\ \/ last_response_json = None /\ last_response_text = None
       \/ last_response_json = StaleJson /\ last_response_text = StaleText
    /\ pc = "idle"
    /\ sent = << >>
    /\ outcomes = << >>
    /\ data = None
    /\ text = None
    /\ text2 = None
    /\ parsed = None
    /\ validation = NoValidation
    /\ result = None
    /\ error = NoError
    /\ resp = NoResp
    /\ checked = NotChecked
    /\ api_key = <<"k">>
    /\ base_url = ValidBase
    /\ model = <<"m">>
    /\ url = << >>
    /\ paths = << >>
    /\ disk = NoDisk
    /\ json_stage = "none"
    /\ xy_pairs = << >>
    /\ NoService

\* Lines 282-379: build the payload and post the primary request.
Call ==
    /\ pc = "idle"
    /\ IF ConfigError(mode, api_key, base_url, model) # "none"
       THEN /\ pc' = "raised"
            /\ error' = Error("ValueError",
                              ConfigError(mode, api_key, base_url, model), << >>)
            /\ UNCHANGED <<sent, url>>
       ELSE /\ pc' = "primary"
            /\ url' = CompletionUrl(mode, base_url, model).val
            /\ sent' = <<Request("primary", BuildPayload(mode, user_prompt))>>
            /\ UNCHANGED error
    /\ UNCHANGED <<service, mode, schema, user_prompt, last_response_json, last_response_text,
                   outcomes, data, text, text2, parsed, validation, result,
                   resp, checked, api_key, base_url, model, paths, disk, json_stage, xy_pairs>>

\* A faulty variant of NoText: an empty text counts as a text.
NoTextOnlyNone(t) == IsNone(t)

\* Line 401: if not text
NoText(t) == ~Truthy(t)

\* Lines 391-423 and, when no repair is needed, 464-481: d is the decoded body
\* of the primary request or of its retry.
AfterData(d) ==
    \E t \in {ExtractText(mode, d)} :
        /\ data' = d
        /\ last_response_json' = IF IsDict(d) THEN d ELSE last_response_json
        /\ text' = t
        /\ text2' = None
        /\ IF NoText(t)
           THEN /\ pc' = "raised"
                /\ error' = Error("ValueError", "NoTextFound", << >>)
                /\ UNCHANGED <<last_response_text, parsed, sent, result, validation>>
           ELSE \E p \in {ParseOrSalvage(t, schema, user_prompt)} :
                /\ last_response_text' = t
                /\ parsed' = p
                /\ IF IsNone(p)
                   THEN /\ pc' = "repair"
                        /\ sent' = Append(sent, Request("repair",
                                       BuildRepairPayload(mode, schema, t.v)))
                        /\ UNCHANGED <<result, error, validation>>
                   ELSE /\ End(Finish(p, schema, user_prompt, t, t, None))
                        /\ UNCHANGED sent

\* Lines 380-389: the primary request failed with out.
OnPrimaryFailure(out) ==
    IF out.exc \in CaughtAtPrimary /\ ShouldDowngrade(mode, sent[1].payload)
    THEN /\ pc' = "retry"
         /\ sent' = Append(sent, Request("retry", DowngradePayload(sent[1].payload)))
         /\ UNCHANGED <<last_response_json, last_response_text, data, text, text2,
                        parsed, validation, result, error>>
    ELSE /\ Propagate(out)
         /\ UNCHANGED <<last_response_json, last_response_text, data, text, text2,
                        parsed, sent>>

\* Line 379: the primary request ends.
PrimaryResponds ==
    /\ pc = "primary"
    /\ \E x \in Exchanges(Texts) :
          \E out \in {RequestJson(x)} :
              /\ outcomes' = Append(outcomes, out.kind)
              /\ IF out.kind = "ok" THEN AfterData(out.data) ELSE OnPrimaryFailure(out)
    /\ UNCHANGED <<service, mode, schema, user_prompt, resp, checked, api_key, base_url,
                   model, url, paths, disk, json_stage, xy_pairs>>

\* A faulty variant of OnRetryFailure: the failed retry is sent again.
OnRetryFailureAgain(out) ==
    /\ pc' = "retry"
    /\ sent' = Append(sent, Request("retry", DowngradePayload(sent[1].payload)))
    /\ UNCHANGED <<last_response_json, last_response_text, data, text, text2,
                   parsed, validation, result, error>>

\* Line 386: the failure of the downgrade retry is handled by nothing.
OnRetryFailure(out) ==
    /\ Propagate(out)
    /\ UNCHANGED <<last_response_json, last_response_text, data, text, text2,
                   parsed, sent>>

\* Line 386: the downgrade retry ends.
RetryResponds ==
    /\ pc = "retry"
    /\ \E x \in Exchanges(Texts) :
          \E out \in {RequestJson(x)} :
              /\ outcomes' = Append(outcomes, out.kind)
              /\ IF out.kind = "ok" THEN AfterData(out.data) ELSE OnRetryFailure(out)
    /\ UNCHANGED <<service, mode, schema, user_prompt, resp, checked, api_key, base_url,
                   model, url, paths, disk, json_stage, xy_pairs>>

\* Lines 435-453: text2 of a repair exchange; every exception gives None.
RepairText(m, out) == IF out.kind = "ok" THEN ExtractText(m, out.data) ELSE None

\* Lines 436-481: the repair request ends.
RepairResponds ==
    /\ pc = "repair"
    /\ \E x \in Exchanges(RepairTexts) :
          \E out \in {RequestJson(x)} :
          \E t2 \in {RepairText(mode, out)} :
          \E cached \in {IF Truthy(t2) THEN t2 ELSE last_response_text} :
          \E p \in {IF Truthy(t2) THEN ParseOrSalvage(t2, schema, user_prompt)
                     ELSE parsed} :
              /\ outcomes' = Append(outcomes, out.kind)
              /\ text2' = t2
              /\ last_response_json' = IF Truthy(t2) /\ IsDict(out.data) THEN out.data
                                        ELSE last_response_json
              /\ last_response_text' = cached
              /\ parsed' = p
              /\ End(Finish(p, schema, user_prompt, cached, text, t2))
    /\ UNCHANGED <<service, mode, schema, user_prompt, sent, data, text, resp, checked,
                   api_key, base_url, model, url, paths, disk, json_stage, xy_pairs>>

Next ==
    \/ Call
    \/ PrimaryResponds
    \/ RetryResponds
    \/ RepairResponds

Spec == Init /\ [][Next]_vars

\* The call under the scheduling it runs with: the coroutine, once called,
\* runs to its first request, and every request that was posted comes to an
\* end (a response, a failure or a timeout of the transport).
SpecLive ==
    /\ Init
    /\ [][Next]_vars
    /\ WF_vars(Call)
    /\ WF_vars(PrimaryResponds)
    /\ WF_vars(RetryResponds)
    /\ WF_vars(RepairResponds)

(***************************************************************************)
(* response_json_checked on its own: one response, validated once          *)
(***************************************************************************)
InitV ==
    /\ mode = "openai"
    /\ schema = "other"
    /\ user_prompt = None
    /\ last_response_json = None
    /\ last_response_text = None
    /\ pc = "validator"
    /\ sent = << >>
    /\ outcomes = << >>
    /\ data = None
    /\ text = None
    /\ text2 = None
    /\ parsed = None
    /\ validation = NoValidation
    /\ result = None
    /\ error = NoError
    /\ resp = NoResp
    /\ checked = NotChecked
    /\ api_key = <<"k">>
    /\ base_url = ValidBase
    /\ model = <<"m">>
    /\ url = << >>
    /\ paths = << >>
    /\ disk = NoDisk
    /\ json_stage = "none"
    /\ xy_pairs = << >>
    /\ NoService

\* response_json_checked(resp) for a response of any status, header and body.
Validate ==
    /\ pc = "validator"
    /\ checked = NotChecked
    /\ \E r \in Responses(StatusCodes, ContentTypes, RepairTexts) :
          /\ resp' = r
          /\ checked' = [args |-> RaisedWith(r), json_calls |-> JsonCalls(r)]
                            @@ ResponseJsonChecked(r)
    /\ UNCHANGED <<service, mode, schema, user_prompt, last_response_json, last_response_text,
                   pc, sent, outcomes, data, text, text2, parsed, validation, result,
                   error, api_key, base_url, model, url, paths, disk, json_stage, xy_pairs>>

NextV == Validate

SpecValidator == InitV /\ [][NextV]_vars

(***************************************************************************)
(* Cancellation of the task that runs the call                             *)
(***************************************************************************)
\* A faulty variant of CaughtAtRepair: the handler is a bare except.
CaughtAtRepairAll ==
    {"LLMHTTPError", "httpx.HTTPError", "JSONDecodeError", "CancelledError"}

\* Lines 438 and 451, except Exception: the exceptions of the model that are
\* subclasses of Exception.  asyncio.CancelledError is a BaseException.
CaughtAtRepair == {"LLMHTTPError", "httpx.HTTPError", "JSONDecodeError"}

\* The await of line 374 raises asyncio.CancelledError: the handlers of lines
\* 380, 438 and 451 see it like any exception that leaves _request_json.
Cancel ==
    /\ pc \in {"primary", "retry", "repair"}
    /\ \E out \in {Checked("Cancelled", "CancelledError", None)} :
          /\ outcomes' = Append(outcomes, out.kind)
          /\ IF pc = "primary" THEN OnPrimaryFailure(out)
             ELSE IF pc = "retry" THEN OnRetryFailure(out)
             ELSE IF out.exc \in CaughtAtRepair
             THEN /\ End(Finish(parsed, schema, user_prompt, last_response_text,
                                text, None))
                  /\ UNCHANGED <<last_response_json, last_response_text, data,
                                 text, text2, parsed, sent>>
             ELSE /\ Propagate(out)
                  /\ UNCHANGED <<last_response_json, last_response_text, data,
                                 text, text2, parsed, sent>>
    /\ UNCHANGED <<service, mode, schema, user_prompt, resp, checked, api_key, base_url,
                   model, url, paths, disk, json_stage, xy_pairs>>

NextCancel ==
    \/ Next
    \/ Cancel

SpecCancel == Init /\ [][NextCancel]_vars

(***************************************************************************)
(* Another call on the same client, running between the awaits of this one *)
(***************************************************************************)
\* What the other call extracts from its response and writes to the cache.
OtherText == JStr(<<"(", "7", ",", "8", ")", " ", "(", "9", ",", "9", ")">>)
OtherJson == ChatBody(OtherText)

\* Lines 391-392, 404, 456-457 of the other call: while this call waits for a
\* response the other call runs and writes the decoded body of its response,
\* and its text when it has one, to the cache of the client.
OtherCallWrites ==
    /\ pc \in {"primary", "retry", "repair"}
    /\ last_response_json' = OtherJson
    /\ last_response_text' \in {last_response_text, OtherText}
    /\ UNCHANGED <<service, mode, schema, user_prompt, pc, sent, outcomes, data, text, text2,
                   parsed, validation, result, error, resp, checked, api_key,
                   base_url, model, url, paths, disk, json_stage, xy_pairs>>

NextConcurrent ==
    \/ Next
    \/ OtherCallWrites

SpecConcurrent == Init /\ [][NextConcurrent]_vars

(***************************************************************************)
(* preflight_llm (preflight.py 16-58)                                      *)
(***************************************************************************)
InitProbe ==
    /\ mode \in Modes
    /\ schema = "other"
    /\ user_prompt = None
    /\ last_response_json = None
    /\ last_response_text = None
    /\ pc = "probe_idle"
    /\ sent = << >>
    /\ outcomes = << >>
    /\ data = None
    /\ text = None
    /\ text2 = None
    /\ parsed = None
    /\ validation = NoValidation
    /\ result = None
    /\ error = NoError
    /\ resp = NoResp
    /\ checked = NotChecked
    /\ api_key \in ApiKeys
    /\ base_url \in ConfigBases
    /\ model = <<"m">>
    /\ url = << >>
    /\ paths = << >>
    /\ disk = NoDisk
    /\ json_stage = "none"
    /\ xy_pairs = << >>
    /\ NoService

\* Lines 31-52: the checks, the URL, and the GET.
ProbeCall ==
    /\ pc = "probe_idle"
    /\ IF ProbeConfigError(mode, api_key, base_url) # "none"
       THEN /\ pc' = "probe_raised"
            /\ error' = Error("ValueError", ProbeConfigError(mode, api_key, base_url),
                              << >>)
            /\ UNCHANGED <<sent, url>>
       ELSE /\ pc' = "probe"
            /\ url' = ModelsUrl(mode, base_url).val
            /\ sent' = <<Request("probe",
                                 [method |-> "GET",
                                  headers |-> IF mode = "gemini_native"
                                              THEN "x-goog-api-key"
                                              ELSE "Authorization"])>>
            /\ UNCHANGED error
    /\ UNCHANGED <<service, mode, schema, user_prompt, last_response_json, last_response_text,
                   outcomes, data, text, text2, parsed, validation, result,
                   resp, checked, api_key, base_url, model, paths, disk, json_stage, xy_pairs>>

\* A faulty variant of ProbeFailure: the failure is logged and the probe
\* returns.
ProbeFailureSwallowed(out) ==
    /\ pc' = "probe_returned"
    /\ UNCHANGED error

\* Lines 54-56 and the exceptions they do not catch: the failure leaves the
\* probe.
ProbeFailure(out) ==
    /\ pc' = "probe_raised"
    /\ error' = Error(out.exc, out.kind, << >>)

\* Lines 50-58: the answer to the GET is there and is validated.
ProbeResponds ==
    /\ pc = "probe"
    /\ \E x \in {[transport |-> e, resp |-> NoResp] : e \in TransportErrors}
                \cup {[transport |-> "ok", resp |-> r] :
                          r \in Responses(StatusCodes, ContentTypes, {<< >>})} :
          \E out \in {RequestJson(x)} :
              /\ outcomes' = Append(outcomes, out.kind)
              /\ resp' = x.resp
              /\ checked' = out
              /\ IF out.kind = "ok"
                 THEN pc' = "probe_returned" /\ UNCHANGED error
                 ELSE ProbeFailure(out)
    /\ UNCHANGED <<service, mode, schema, user_prompt, last_response_json, last_response_text,
                   sent, data, text, text2, parsed, validation, result,
                   api_key, base_url, model, url, paths, disk, json_stage, xy_pairs>>

NextProbe ==
    \/ ProbeCall
    \/ ProbeResponds

SpecProbe == InitProbe /\ [][NextProbe]_vars

(***************************************************************************)
(* The calls under every configuration                                     *)
(***************************************************************************)
\* api_key, model and base_url of a client are stripped by __init__
\* (provider.py 260-263); preflight_llm takes them as they are.
InitConfig ==
    /\ mode \in Modes
    /\ schema = "drag_drop"
    /\ user_prompt = None
    /\ last_response_json = None
    /\ last_response_text = None
    /\ pc \in {"idle", "probe_idle"}
    /\ sent = << >>
    /\ outcomes = << >>
    /\ data = None
    /\ text = None
    /\ text2 = None
    /\ parsed = None
    /\ validation = NoValidation
    /\ result = None
    /\ error = NoError
    /\ resp = NoResp
    /\ checked = NotChecked
    /\ api_key \in ApiKeys
    /\ base_url \in ConfigBases
    /\ pc = "idle" => base_url = Strip(base_url)
    /\ model \in ModelNames
    /\ url = << >>
    /\ paths = << >>
    /\ disk = NoDisk
    /\ json_stage = "none"
    /\ xy_pairs = << >>
    /\ NoService

NextConfig ==
    \/ Next
    \/ NextProbe

SpecConfig == InitConfig /\ [][NextConfig]_vars

(***************************************************************************)
(* join_url on its own: one base URL, joined once                          *)
(***************************************************************************)
JoinArgs == {<<<<"a">>, <<"b">>>>, <<P_models>>, <<<<"/", "a",
    "/">>, << >>, <<"b", "/">>>>, << >>}

InitU ==
    /\ mode = "openai"
    /\ schema = "other"
    /\ user_prompt = None
    /\ last_response_json = None
    /\ last_response_text = None
    /\ pc = "join_idle"
    /\ sent = << >>
    /\ outcomes = << >>
    /\ data = None
    /\ text = None
    /\ text2 = None
    /\ parsed = None
    /\ validation = NoValidation
    /\ result = None
    /\ error = NoError
    /\ resp = NoResp
    /\ checked = NotChecked
    /\ api_key = <<"k">>
    /\ base_url \in BaseUrls
    /\ model = <<"m">>
    /\ url = << >>
    /\ paths = << >>
    /\ disk = NoDisk
    /\ json_stage = "none"
    /\ xy_pairs = << >>
    /\ NoService

\* join_url(base_url, *paths)
JoinUrlCall ==
    /\ pc = "join_idle"
    /\ pc' = "joined"
    /\ \E ps \in JoinArgs :
          /\ paths' = ps
          /\ url' = JoinUrl(base_url, ps)
    /\ UNCHANGED <<service, mode, schema, user_prompt, last_response_json, last_response_text,
                   sent, outcomes, data, text, text2, parsed, validation, result,
                   error, resp, checked, api_key, base_url, model, disk, json_stage, xy_pairs>>

NextU == JoinUrlCall

SpecURL == InitU /\ [][NextU]_vars

(***************************************************************************)
(* The URL builders of endpoints.py on their own: one base URL, resolved   *)
(* once for a mode                                                         *)
(***************************************************************************)
\* Paths with segments that hold v1beta or openai as a part, or twice.
SegmentPaths ==
    {<<"/", "v", "1", "b", "e", "t", "a", "X">>, <<"/", "x", "v", "1", "b",
        "e", "t", "a", "/", "p">>, <<"/", "v", "1", "b", "e", "t", "a", "X",
            "/", "o", "p", "e", "n", "a", "i">>, <<"/", "v", "1", "b", "e",
                "t", "a", "/", "o", "p", "e", "n", "a", "i", "X">>,
     <<"/", "v", "1", "b", "e", "t", "a", ".", "o", "p", "e", "n", "a",
         "i">>, <<"/", "V", "1", "B", "E", "T", "A">>, <<"/", "v", "1", "b",
             "e", "t", "a", "/", "v", "1", "b", "e", "t", "a">>, <<"/", "p",
                 "/", "v", "1", "b", "e", "t", "a">>,
     <<"/", "p", "/", "v", "1", "b", "e", "t", "a", "/", "o", "p", "e", "n",
         "a", "i", "/", "q">>, <<"/", "v", "1", "b", "e", "t", "a", "/", "/",
             "o", "p", "e", "n", "a", "i">>}
SegmentSuffixes ==
    {<< >>, <<"?", "a", "=", "/", "v", "1", "b", "e", "t", "a", "/", "o", "p",
        "e", "n", "a", "i">>, <<"#", "/", "v", "1", "b", "e", "t",
            "a">>, <<"?", "v", "1", "b", "e", "t", "a", "#", "o", "p", "e",
                "n", "a", "i">>}
ResolveBases ==
    BaseUrls
        \cup {BasePrefix \o p \o q : p \in SegmentPaths \cup {<< >>, <<"/",
            "p", "/">>,
                                                             <<"/", "v", "1",
                                                                 "b", "e",
                                                                     "t",
                                                                         "a">>},
                                    q \in SegmentSuffixes}
        \cup {<<" ", "h", "t", "t", "p", ":", "/", "/", "h", "/", "v", "1",
            "b", "e", "t", "a", "/", "o", "p", "e", "n", "a", "i">>, <<"h",
                "t", "t", "p", ":", "/", "/", "h", "/", "v", "1", "b", "e",
                    "t", "a", "/", "o", "p", "e", "n", "a", "i", " ">>,
              <<"h", "t", "t", "p", ":", "/", "/", "h", "/", "v", "1", "b",
                  "e", "t", "a", " ">>, <<"h", "t", "t", "p", "s", ":",
                      "/", "/", "h", "/", "P">>, <<"h", "/", "v", "1", "b", "e", "t",
                          "a">>,
              <<"/", "/", "h", "/", "p", "?", "q">>, <<"?", "v", "1", "b",
                  "e", "t", "a">>}

\* The message of the ValueError a builder raises for the base.
ResolveError(m, base) ==
    IF m = "gemini_native" /\ HasV1betaOpenai(base) THEN "IncompatiblePath"
    ELSE "BaseUrlEmpty"

InitResolve ==
    /\ mode \in Modes
    /\ schema = "other"
    /\ user_prompt = None
    /\ last_response_json = None
    /\ last_response_text = None
    /\ pc = "resolve_idle"
    /\ sent = << >>
    /\ outcomes = << >>
    /\ data = None
    /\ text = None
    /\ text2 = None
    /\ parsed = None
    /\ validation = NoValidation
    /\ result = None
    /\ error = NoError
    /\ resp = NoResp
    /\ checked = NotChecked
    /\ api_key = <<"k">>
    /\ base_url \in ResolveBases
    /\ model = <<"m">>
    /\ url = << >>
    /\ paths = << >>
    /\ disk = NoDisk
    /\ json_stage = "none"
    /\ xy_pairs = << >>
    /\ NoService

\* build_openai_models_url, build_gemini_native_models_url or
\* build_gemini_openai_models_url, by the mode
ResolveModelsUrl ==
    /\ pc = "resolve_idle"
    /\ \E out \in {ModelsUrl(mode, base_url)} :
          IF out.ok
          THEN pc' = "models_url" /\ url' = out.val /\ UNCHANGED error
          ELSE /\ pc' = "models_raised"
               /\ error' = Error("ValueError", ResolveError(mode, base_url), << >>)
               /\ UNCHANGED url
    /\ UNCHANGED <<service, mode, schema, user_prompt, last_response_json, last_response_text,
                   sent, outcomes, data, text, text2, parsed, validation, result,
                   resp, checked, api_key, base_url, model, paths, disk, json_stage, xy_pairs>>

\* build_openai_chat_completions_url, build_gemini_native_generate_content_url
\* or build_gemini_openai_chat_completions_url, by the mode
ResolveCompletionUrl ==
    /\ pc = "resolve_idle"
    /\ \E out \in {CompletionUrl(mode, base_url, model)} :
          IF out.ok
          THEN pc' = "completion_url" /\ url' = out.val /\ UNCHANGED error
          ELSE /\ pc' = "completion_raised"
               /\ error' = Error("ValueError", ResolveError(mode, base_url), << >>)
               /\ UNCHANGED url
    /\ UNCHANGED <<service, mode, schema, user_prompt, last_response_json, last_response_text,
                   sent, outcomes, data, text, text2, parsed, validation, result,
                   resp, checked, api_key, base_url, model, paths, disk, json_stage, xy_pairs>>

\* build_gemini_openai_base_url(base_url), and once more on what it returned
DeriveRoot ==
    /\ mode = "gemini_openai"
    /\ pc \in {"resolve_idle", "root"}
    /\ \E out \in {BuildGeminiOpenaiBaseUrl(IF pc = "root" THEN url ELSE base_url)} :
          IF out.ok
          THEN /\ pc' = IF pc = "root" THEN "root_again" ELSE "root"
               /\ url' = out.val
               /\ UNCHANGED error
          ELSE /\ pc' = "root_raised"
               /\ error' = Error("ValueError", "BaseUrlEmpty", << >>)
               /\ UNCHANGED url
    /\ UNCHANGED <<service, mode, schema, user_prompt, last_response_json, last_response_text,
                   sent, outcomes, data, text, text2, parsed, validation, result,
                   resp, checked, api_key, base_url, model, paths, disk, json_stage, xy_pairs>>

NextResolve ==
    \/ ResolveModelsUrl
    \/ ResolveCompletionUrl
    \/ DeriveRoot

SpecResolve == InitResolve /\ [][NextResolve]_vars

(***************************************************************************)
(* cache_response(path): the cache written to a file                       *)
(***************************************************************************)
\* Lines 489-495: the dict that json.dumps writes.
CachePayload(m, base, mdl, j, t) ==
    [mode |-> m, base_url |-> base, model |-> mdl, response_json |-> j,
     response_text |-> t]

\* A file that an earlier cache_response wrote.
OldFile ==
    [written |-> "all",
     payload |-> CachePayload("openai", ValidBase, <<"m">>, StaleJson, StaleText)]

\* The parent directory and the file before the call.
Disks ==
    {NoDisk, [NoDisk EXCEPT !.dir = TRUE],
     [NoDisk EXCEPT !.dir = TRUE, !.file = OldFile]}

\* What generate_with_images can have left in the cache: nothing, a dict
\* without text (with no text or with the text of an earlier call), or a dict
\* and its text.
Caches ==
    {<<None, None>>, <<JObj(EmptyObj), None>>, <<JObj(EmptyObj), StaleText>>,
     <<StaleJson, StaleText>>, <<OtherJson, OtherText>>}

\* How far mkdir and write_text get: mkdir(parents=True, exist_ok=True) cannot
\* fail on a directory that exists.
FsOutcomes(d) ==
    {"written", "open_fails", "write_fails"}
        \cup (IF d.dir THEN {} ELSE {"mkdir_fails"})

\* Lines 488-496 on the file system.
DiskAfter(d, fs, payload) ==
    CASE fs = "mkdir_fails" -> d
      [] fs = "open_fails" -> [d EXCEPT !.dir = TRUE]
      [] fs = "write_fails" -> [d EXCEPT !.dir = TRUE, !.file = [written |-> "part"]]
      [] fs = "written" ->
            [d EXCEPT !.dir = TRUE,
                      !.file = [written |-> "all", payload |-> payload]]

CacheFailureRaises(d) == [d EXCEPT !.call = "raised"]

\* Lines 497-498: except Exception, logger.warning, and the method ends.
CacheFailure(d) == [d EXCEPT !.call = "returned"]

InitCache ==
    /\ mode \in Modes
    /\ schema = "other"
    /\ user_prompt = None
    /\ \E c \in Caches :
          /\ last_response_json = c[1]
          /\ last_response_text = c[2]
    /\ pc = "cache_idle"
    /\ sent = << >>
    /\ outcomes = << >>
    /\ data = None
    /\ text = None
    /\ text2 = None
    /\ parsed = None
    /\ validation = NoValidation
    /\ result = None
    /\ error = NoError
    /\ resp = NoResp
    /\ checked = NotChecked
    /\ api_key = <<"k">>
    /\ base_url \in {ValidBase, BasePrefix}
    /\ model = <<"m">>
    /\ url = << >>
    /\ paths = << >>
    /\ disk \in Disks
    /\ json_stage = "none"
    /\ xy_pairs = << >>
    /\ NoService

\* cache_response(path), lines 483-498
CacheResponse ==
    /\ pc = "cache_idle"
    /\ pc' = "cache_done"
    /\ IF ~Truthy(last_response_json) /\ ~Truthy(last_response_text)
       THEN disk' = [disk EXCEPT !.call = "returned"]
       ELSE \E fs \in FsOutcomes(disk) :
               \E after \in {DiskAfter(disk, fs,
                                       CachePayload(mode, base_url, model,
                                                    last_response_json,
                                                    last_response_text))} :
                  disk' = IF fs = "written"
                          THEN [after EXCEPT !.call = "returned"]
                          ELSE CacheFailure(after)
    /\ UNCHANGED <<service, mode, schema, user_prompt, last_response_json, last_response_text,
                   sent, outcomes, data, text, text2, parsed, validation, result,
                   error, resp, checked, api_key, base_url, model, url, paths,
                   json_stage, xy_pairs>>

NextCache == CacheResponse

SpecCache == InitCache /\ [][NextCache]_vars

(***************************************************************************)
(* The extraction functions on their own: one text, one schema, one call   *)
(* of _extract_first_json, of _salvage_from_text or of lines 407-411       *)
(***************************************************************************)
\* str(n) for n >= 0
Digits10 == <<"0", "1", "2", "3", "4", "5", "6", "7", "8", "9">>

RECURSIVE IntText(_)
IntText(n) ==
    IF n < 10 THEN <<Digits10[n + 1]>>
    ELSE IntText(n \div 10) \o <<Digits10[(n % 10) + 1]>>

\* json.dumps(x) with its default separators, as the sender of a response
\* writes an object: the keys in one order, strings without escapes (the
\* model's strings hold no quote, backslash or control character).
RECURSIVE JsonDumps(_)
RECURSIVE DumpItems(_, _)
RECURSIVE DumpMembers(_, _)
DumpItems(a, i) ==
    IF i > Len(a) THEN << >>
    ELSE (IF i > 1 THEN <<",",
        " ">> ELSE << >>) \o JsonDumps(a[i]) \o DumpItems(a, i + 1)

DumpMembers(o, keys) ==
    IF keys = {} THEN << >>
    ELSE The({(IF keys # DOMAIN o THEN <<",", " ">> ELSE << >>)
              \o <<"\"">> \o k \o <<"\"", ":", " ">> \o JsonDumps(o[k])
              \o DumpMembers(o, keys \ {k})
              : k \in {CHOOSE k \in keys : TRUE}})

JsonDumps(x) ==
    CASE x.t = "null" -> <<"n", "u", "l", "l">>
      [] x.t = "bool" -> (IF x.v THEN <<"t", "r", "u", "e">> ELSE <<"f", "a",
          "l", "s", "e">>)
      [] x.t = "num" -> IntText(x.v)
      [] x.t = "str" -> <<"\"">> \o x.v \o <<"\"">>
      [] x.t = "arr" -> <<"[">> \o DumpItems(x.v, 1) \o <<"]">>
      [] x.t = "obj" -> <<"{">> \o DumpMembers(x.v, DOMAIN x.v) \o <<"}">>

\* The objects a response is the serialization of: one that conforms to each
\* schema, and objects of no schema whose strings hold what the later stages
\* look for (braces, fences, coordinate pairs).
DumpObjects ==
    {JObj((K_challenge_prompt :> JStr(<<"g", "o">>)) @@
          (K_paths :> JArr(<<JObj((K_start_point :> Point(<<5, 5>>)) @@
                                  (K_end_point :> Point(<<9, 9>>)))>>))),
     JObj((K_challenge_prompt :> JStr(<< >>)) @@
          (K_points :> JArr(<<Point(<<10, 20>>), Point(<<0, 7>>)>>))),
     JObj((K_challenge_prompt :> JStr(<<"g", "o">>)) @@
          (K_challenge_type :> JStr(ImageDragSingle))),
     JObj(EmptyObj),
     Obj1(<<"a">>, JNum(1)),
     Obj1(<<"a">>, JStr(<<"(", "1", ",", "2", ")", " ", "a", "n", "d", " ",
         "x", "=", "3", ",", " ", "y", "=", "4">>)),
     Obj1(<<"a">>, JStr(<<"}", "{", " ", BQ, BQ, BQ, "j", "s", "o", "n", " ",
         "{", "}", " ", BQ, BQ, BQ>>)),
     JObj((<<"a">> :> None) @@ (<<"b">> :> JArr(<<JBool(TRUE), JBool(FALSE),
         JArr(<< >>)>>))),
     Obj1(K_points, JArr(<< >>)),
     Point(<<1, 2>>)}

\* Texts with a json fenced block: what stands before it, the block's
\* contents with the value they are the JSON text of, and what stands behind.
FenceBefore ==
    {<< >>, <<"H", "e", "r", "e", " ", "i", "t", " ", "i", "s", ":", "\n">>,
        <<BQ, BQ, BQ, "\n", "{", "\"", "b", "\"", ":", " ", "2", "}", "\n", BQ,
            BQ, BQ, "\n", "o", "r", " ">>, <<"s", "e", "e", " ", "{", "b", "}",
                " ">>}
FenceContents ==
    {[body |-> <<"{", "\"", "a", "\"", ":", "1", "}">>, val |-> Obj1(<<"a">>,
        JNum(1))],
     [body |-> <<"\n", "{", "\"", "a", "\"", ":", " ", "1", "}", "\n">>,
         val |-> Obj1(<<"a">>, JNum(1))],
     [body |-> <<" ", "[", "1", ",", " ", "2", "]", " ">>,
         val |-> JArr(<<JNum(1), JNum(2)>>)],
     [body |-> <<"\n", "{", "\"", "x", "\"", ":", " ", "1", "0", ",", " ",
         "\"", "y", "\"", ":", " ", "2", "0", "}", "\n">>, val |-> Point(<<10,
             20>>)]}
FenceBehind ==
    {<< >>, <<"\n", "D", "o", "n", "e", ".">>, <<"\n", BQ, BQ, BQ, "\n", "{",
        "\"", "b", "\"", ":", " ", "2", "}", "\n", BQ, BQ, BQ>>, <<" ", "{",
            "\"", "b", "\"", ":", " ", "2", "}">>}
FencedTexts ==
    {b \o FenceJson \o c.body \o Fence \o e
        : b \in FenceBefore, c \in FenceContents, e \in FenceBehind}
        \cup {<<"p", "r", "o", "s", "e", " ", BQ, BQ, BQ, "\n", "{", "\"", "b",
            "\"", ":", " ", "2", "}", "\n", BQ, BQ, BQ>>, <<BQ, BQ, BQ, "J",
                "S", "O", "N", "\n", "{", "\"", "a", "\"", ":", "1", "}", "\n",
                    BQ, BQ, BQ>>,
              <<BQ, BQ, BQ, "j", "s", "o", "n", "\n", "{", "a", "}", "\n", BQ,
                  BQ, BQ, " ", BQ, BQ, BQ, "\n", "{", "\"", "b", "\"", ":",
                      " ", "2", "}", "\n", BQ, BQ, BQ>>, <<BQ, BQ, BQ, "j",
                          "s", "o", "n", "\n", "\n", BQ, BQ, BQ>>}

\* Texts without JSON: coordinate pairs of the two families, in both orders,
\* repeated, and none.
PairTexts ==
    {<<"p", "o", "i", "n", "t", " ", "i", "s", " ", "x", "=", "1", "0", ",",
        " ", "y", "=", "2", "0">>, <<"(", "5", ",", "5", ")", " ", ".", ".",
            ".", " ", "(", "9", ",", "9", ")">>, <<"(", "1", ",", "2", ")",
                " ", "t", "h", "e", "n", " ", "x", "=", "3", ",", " ", "y",
                    "=", "4">>,
     <<"x", "=", "3", ",", " ", "y", "=", "4", " ", "t", "h", "e", "n", " ",
         "(", "1", ",", "2", ")">>, <<"(", "1", ",", "2", ")", " ", "(", "1",
             ",", "2", ")", " ", "x", "=", "1", ",", " ", "y", "=", "2", " ",
                 "(", "3", ",", "4", ")">>,
     <<"X", ":", " ", "7", " ", ",", " ", "Y", ":", " ", "8", " ", "a", "n",
         "d", " ", "(", " ", "7", " ", ",", " ", "8", " ", ")">>, <<"(", "5",
             ",", "5", ")", " ", "(", "5", ",", "5", ")">>, <<"n", "o", " ",
                 "p", "a", "i", "r", " ", "h", "e", "r", "e">>,
     <<"x", "=", "1", " ", "y", "=", "2", " ", "(", "3", ";", "4", ")">>,
         <<"(", "1", ",", "2", ")", "(", "3", ",", "4", ")", "(", "1", ",",
             "2", ")", "(", "5", ",", "6", ")">>, T_label, T_space}

ExtractTexts ==
    {JsonDumps(o) : o \in DumpObjects} \cup FencedTexts \cup PairTexts

\* The stage at which _extract_first_json(text) returns (lines 38-75).
StageReturned(t) ==
    IF ~IsStr(t) \/ t.v = << >> THEN "none"
    ELSE IF Strip(t.v) = << >> THEN "none"
    ELSE IF DirectParse(Strip(t.v)).ret THEN "direct"
    ELSE IF FencedBlock(Strip(t.v)).ret THEN "fenced"
    ELSE "bracket"

InitExtract ==
    /\ mode = "openai"
    /\ schema \in Schemas
    /\ user_prompt \in UserPrompts
    /\ last_response_json = None
    /\ last_response_text = None
    /\ pc = "extract_idle"
    /\ sent = << >>
    /\ outcomes = << >>
    /\ data = None
    /\ text \in {JStr(t) : t \in ExtractTexts}
    /\ text2 = None
    /\ parsed = None
    /\ validation = NoValidation
    /\ result = None
    /\ error = NoError
    /\ resp = NoResp
    /\ checked = NotChecked
    /\ api_key = <<"k">>
    /\ base_url = ValidBase
    /\ model = <<"m">>
    /\ url = << >>
    /\ paths = << >>
    /\ disk = NoDisk
    /\ json_stage = "none"
    /\ xy_pairs = << >>
    /\ NoService

\* _extract_first_json(text)
ExtractFirstJsonCall ==
    /\ pc = "extract_idle"
    /\ pc' = "extracted"
    /\ parsed' = ExtractFirstJson(text)
    /\ json_stage' = StageReturned(text)
    /\ UNCHANGED <<service, mode, schema, user_prompt, last_response_json,
        last_response_text,
                   sent, outcomes, data, text, text2, validation, result, error,
                   resp, checked, api_key, base_url, model, url, paths, disk,
                   xy_pairs>>

\* _salvage_from_text(text=text, response_schema=, user_prompt=)
SalvageFromTextCall ==
    /\ pc = "extract_idle"
    /\ pc' = "salvaged"
    /\ xy_pairs' = ExtractXYPairs(text)
    /\ parsed' = SalvageFromText(text, schema, user_prompt)
    /\ UNCHANGED <<service, mode, schema, user_prompt, last_response_json,
        last_response_text,
                   sent, outcomes, data, text, text2, validation, result, error,
                   resp, checked, api_key, base_url, model, url, paths, disk,
                   json_stage>>

\* Lines 407-411: _extract_first_json, and _salvage_from_text when it gave
\* None.
ParseCall ==
    /\ pc = "extract_idle"
    /\ pc' = "parsed"
    /\ parsed' = ParseOrSalvage(text, schema, user_prompt)
    /\ json_stage' = StageReturned(text)
    /\ xy_pairs' = IF IsNone(ExtractFirstJson(text)) THEN ExtractXYPairs(text)
                   ELSE xy_pairs
    /\ UNCHANGED <<service, mode, schema, user_prompt, last_response_json,
        last_response_text,
                   sent, outcomes, data, text, text2, validation, result, error,
                   resp, checked, api_key, base_url, model, url, paths, disk>>

NextExtract ==
    \/ ExtractFirstJsonCall
    \/ SalvageFromTextCall
    \/ ParseCall

SpecExtract == InitExtract /\ [][NextExtract]_vars

(***************************************************************************)
(* Properties of generate_with_images, checked under Spec                  *)
(***************************************************************************)
\* The call is over.
Final == pc \in {"returned", "raised"}

\* The primary request was answered and failed.
PrimaryFailed == Len(outcomes) >= 1 /\ outcomes[1] # "ok"

\* The request sent last was answered with the outcome kind.
LastOutcomeIs(kind) ==
    /\ Len(outcomes) >= 1
    /\ Len(outcomes) = Len(sent)
    /\ outcomes[Len(outcomes)] = kind

RepairSent == \E i \in 1..Len(sent) : sent[i].kind = "repair"

\* C1: in the OpenAI-compatible modes a failed primary request is followed by
\* exactly one retry, whose payload is the primary payload without
\* response_format and with every other field unchanged; a retry that succeeds
\* is what the call goes on with, and a retry that fails ends the call with its
\* error and without another request.
C1_RetryOnce ==
    mode \in OpenAIModes =>
        /\ PrimaryFailed => Len(sent) >= 2 /\ sent[2].kind = "retry"
        /\ \A i \in 1..Len(sent) :
              sent[i].kind = "retry" =>
                  /\ i = 2
                  /\ DOMAIN sent[i].payload = DOMAIN sent[1].payload \ {"response_format"}
                  /\ \A k \in DOMAIN sent[i].payload :
                        sent[i].payload[k] = sent[1].payload[k]
        /\ Len(outcomes) >= 2 /\ sent[2].kind = "retry" /\ outcomes[2] # "ok" =>
              /\ pc = "raised"
              /\ error.what = outcomes[2]
              /\ Len(sent) = 2
        /\ Len(outcomes) >= 2 /\ sent[2].kind = "retry" /\ outcomes[2] = "ok" =>
              /\ data # None
              /\ error.exc \notin {"LLMHTTPError", "httpx.HTTPError", "JSONDecodeError"}

\* C2: in the OpenAI-compatible modes the primary payload requests
\* response_format, and whatever way the primary request fails (transport
\* error or timeout, EmptyBody, NonJSONResponse, JSON decode failure, HTTP
\* error status) the downgrade retry is issued.
C2_EveryFailureRetried ==
    mode \in OpenAIModes /\ pc # "idle" =>
        /\ "response_format" \in DOMAIN sent[1].payload
        /\ \A kind \in {"Timeout", "ConnectError", "EmptyBody", "NonJSONResponse",
                        "JSONDecodeError", "HTTPError"} :
              Len(outcomes) >= 1 /\ outcomes[1] = kind =>
                  \E i \in 1..Len(sent) : sent[i].kind = "retry"

\* C3: a call issues at most three requests: one primary request, at most one
\* downgrade retry and at most one repair request, and nothing after the
\* repair request.
C3_AtMostThreeRequests ==
    /\ Len(sent) <= 3
    /\ pc # "idle" => sent[1].kind = "primary"
    /\ \A i \in 2..Len(sent) : sent[i].kind \in {"retry", "repair"}
    /\ \A i, j \in 1..Len(sent) : sent[i].kind = sent[j].kind => i = j
    /\ \A i \in 1..Len(sent) : sent[i].kind = "repair" => i = Len(sent)
    /\ Len(outcomes) <= Len(sent)

\* A call that ended after a primary request, a retry and a repair request.
C3_ThreeRequestsSent ==
    /\ Final
    /\ [i \in 1..Len(sent) |-> sent[i].kind] = <<"primary", "retry", "repair">>
    /\ Len(outcomes) = 3

\* C4: every value the call returns has passed the validation against the
\* caller's schema, whatever path produced it.
C4_ReturnedIsValidated ==
    pc = "returned" => ~IsNone(result) /\ ModelValidate(schema, result)

\* A value returned by the salvage that follows a validation failure.
C4_ReturnedAfterSalvage ==
    /\ pc = "returned"
    /\ validation.salvages = 1
    /\ result = validation.salvaged
    /\ result # validation.first

\* What a stage yields: its value, or None when it yields nothing.
Yield(stage) == IF stage.ret THEN stage.val ELSE None

\* The output of the first of the stages direct parse, fenced block, bracket
\* scan and salvage that yields a value on the text t; None when none does.
FirstYield(t, sc, prompt) ==
    LET s == Strip(t.v)
        direct == IF s = << >> THEN None ELSE Yield(DirectParse(s))
        fenced == IF s = << >> THEN None ELSE Yield(FencedBlock(s))
        bracket == IF s = << >> THEN None ELSE Yield(BracketScan(s))
    IN  IF ~IsNone(direct) THEN direct
        ELSE IF ~IsNone(fenced) THEN fenced
        ELSE IF ~IsNone(bracket) THEN bracket
        ELSE SalvageFromText(t, sc, prompt)

\* C5: the candidate is the output of the first stage that yields a value, in
\* the order direct parse, fenced block, bracket scan, salvage, repair pass;
\* the repair request is issued only when the four stages yield nothing on
\* the primary text.
C5_FirstYieldingStage ==
    Truthy(text) =>
        /\ RepairSent => IsNone(FirstYield(text, schema, user_prompt))
        /\ ~RepairSent => parsed = FirstYield(text, schema, user_prompt)

\* C6: when nothing was parsed from the primary text and the repair pass
\* yields nothing either (its request fails, its response has no text, or the
\* four stages yield nothing on its text), the call raises UnparsableOutput,
\* and the snippet of an UnparsableOutput is the primary text cut to SnippetLen
\* characters, never the repair text.
C6_UnparsableSnippetOfPrimary ==
    /\ (/\ Final
        /\ RepairSent
        /\ \/ ~LastOutcomeIs("ok")
           \/ ~Truthy(text2)
           \/ IsNone(FirstYield(text2, schema, user_prompt)))
       => pc = "raised" /\ error.what = "UnparsableOutput"
    /\ error.what = "UnparsableOutput" =>
          /\ pc = "raised"
          /\ error.exc = "ValueError"
          /\ result = None
          /\ RepairSent
          /\ Len(error.snippet) =
                IF Len(text.v) <= SnippetLen THEN Len(text.v) ELSE SnippetLen
          /\ \A i \in 1..Len(error.snippet) : error.snippet[i] = text.v[i]

\* An UnparsableOutput raised after a repair response with a text, for a
\* primary text longer than the snippet.
C6_LongPrimaryRepairTextUseless ==
    /\ pc = "raised"
    /\ error.what = "UnparsableOutput"
    /\ Truthy(text2)
    /\ text2 # text
    /\ Len(text.v) > SnippetLen
    /\ Len(error.snippet) = SnippetLen

\* C7: when the validation of the normalized candidate fails, the salvage runs
\* exactly once, on the repair text if the repair pass gave a text and on the
\* primary text otherwise, and no request follows; a salvage that yields
\* nothing raises the validation error of the candidate, and a salvaged
\* candidate is validated: it is returned when valid, and the failure of its
\* validation is raised otherwise.
C7_SalvageOnceOnLastRawText ==
    validation # NoValidation =>
        /\ Final
        /\ Len(outcomes) = Len(sent)
        /\ IF ModelValidate(schema, validation.first)
           THEN /\ validation.salvages = 0
                /\ pc = "returned"
                /\ result = validation.first
           ELSE /\ validation.salvages = 1
                /\ validation.salvaged =
                      SalvageFromText(IF Truthy(text2) THEN text2 ELSE text,
                                      schema, user_prompt)
                /\ IF IsNone(validation.salvaged)
                   THEN /\ pc = "raised"
                        /\ error = Error("ValidationError", "candidate", << >>)
                   ELSE IF ModelValidate(schema, validation.salvaged)
                   THEN pc = "returned" /\ result = validation.salvaged
                   ELSE /\ pc = "raised"
                        /\ error = Error("ValidationError", "salvaged", << >>)

\* A candidate of the repair text failed the validation and the salvage of the
\* repair text gave the value returned.
C7_SalvagedFromRepairText ==
    /\ pc = "returned"
    /\ validation.salvages = 1
    /\ Truthy(text2)
    /\ ~ModelValidate(schema, validation.first)
    /\ IsNone(SalvageFromText(text, schema, user_prompt))

\* C8: in gemini_native mode a failed primary request ends the call with the
\* error of that request: one request was issued, no retry and no repair
\* request.
C8_GeminiNativeNoRetry ==
    mode = "gemini_native" /\ PrimaryFailed =>
        /\ pc = "raised"
        /\ Len(sent) = 1
        /\ sent[1].kind = "primary"
        /\ Len(outcomes) = 1
        /\ error.what = outcomes[1]
        /\ error.exc \in {"LLMHTTPError", "httpx.HTTPError", "JSONDecodeError"}
        /\ result = None

\* A gemini_native call whose primary request was answered with an HTTP error
\* status.
C8_GeminiNativeHTTPError ==
    /\ mode = "gemini_native"
    /\ outcomes = <<"HTTPError">>
    /\ pc = "raised"
    /\ error.exc = "LLMHTTPError"

C18_CacheOverwrittenByCall ==
    (Final /\ Len(outcomes) >= 1) =>
        /\ (LastOutcomeIs("ok") /\ ~RepairSent) =>
              /\ last_response_json = data
              /\ last_response_text = text
        /\ (LastOutcomeIs("ok") /\ RepairSent) => last_response_text = text2
        /\ (\A i \in 1..Len(outcomes) : outcomes[i] # "ok") =>
              /\ last_response_json = None
              /\ last_response_text = None

\* C33: in every reachable state the cached decoded body and the cached text
\* come from one response: the cache is as it was before the call (empty, or
\* the pair an earlier call left), or the cached text is the text extracted
\* from the cached body.
C33_CachePairFromOneResponse ==
    \/ last_response_json = None /\ last_response_text = None
    \/ last_response_json = StaleJson /\ last_response_text = StaleText
    \/ /\ IsDict(last_response_json)
       /\ last_response_text = ExtractText(mode, last_response_json)

\* C34: under the schema that declares challenge_type and neither paths nor
\* points, a primary (or retried) answer whose text holds a character that is
\* neither whitespace nor a backquote is followed by no repair request: when
\* _extract_first_json gives nothing, the salvage stage gives the object made
\* of the prompt and the whole text without the whitespace and backquotes
\* around it.
C34_RouterTextNeverRepaired ==
    (/\ schema = "router"
     /\ IsStr(text)
     /\ \E k \in 1..Len(text.v) : text.v[k] \notin Whitespace \cup {BQ}) =>
        /\ pc # "repair"
        /\ \A i \in 1..Len(sent) : sent[i].kind # "repair"
        /\ IsNone(ExtractFirstJson(text)) =>
              /\ IsDict(parsed)
              /\ DOMAIN parsed.v = {K_challenge_prompt, K_challenge_type}
              /\ parsed.v[K_challenge_prompt] = PromptOrEmpty(user_prompt)
              /\ IsStr(parsed.v[K_challenge_type])
              /\ \E a, b \in 1..Len(text.v) :
                    /\ parsed.v[K_challenge_type].v = SubSeq(text.v, a, b)
                    /\ a <= b
                    /\ text.v[a] \notin Whitespace
                    /\ text.v[b] \notin Whitespace
                    /\ \A k \in (1..(a - 1)) \cup ((b + 1)..Len(text.v)) :
                          text.v[k] \in Whitespace \cup {BQ}

\* An answer with backquotes and whitespace around a word was salvaged under
\* the challenge_type schema and the call ended with one request sent.
C34_TickedWordSalvaged ==
    /\ schema = "router"
    /\ pc \in {"returned", "raised"}
    /\ text = JStr(T_ticked)
    /\ parsed = JObj((K_challenge_prompt :> PromptOrEmpty(user_prompt)) @@
                     (K_challenge_type :> JStr(<<BQ, "o", "k", BQ>>)))
    /\ Len(sent) = 1

(***************************************************************************)
(* Properties of a cancelled call, checked under SpecCancel                *)
(***************************************************************************)
\* C17: when the call is cancelled while one of its requests (primary, retry
\* or repair) is in flight, the CancelledError leaves the call: the cancelled
\* request is the last one, and no retry or repair request follows it.
C17_CancellationPropagates ==
    \A i \in 1..Len(outcomes) :
        outcomes[i] = "Cancelled" =>
            /\ i = Len(outcomes)
            /\ Len(sent) = i
            /\ pc = "raised"
            /\ error = Error("CancelledError", "Cancelled", << >>)
            /\ result = None

\* A call cancelled while its repair request was in flight.
C17_CancelledDuringRepair ==
    /\ pc = "raised"
    /\ Len(outcomes) >= 2
    /\ outcomes[Len(outcomes)] = "Cancelled"
    /\ sent[Len(sent)].kind = "repair"
    /\ error.exc = "CancelledError"

(***************************************************************************)
(* Properties of two calls on one client, checked under SpecConcurrent     *)
(***************************************************************************)
\* C16: whatever another call on the same client writes to the cache while
\* this call waits for its responses, what this call returns or raises is
\* given by its own mode, schema, prompt and responses: a failed request that
\* is not the repair request ends the call with its failure, a body without
\* text with NoTextFound, and otherwise the end is the one lines 464-481 give
\* for the candidate parsed from the call's own last text (the repair text
\* when there is one, the primary text otherwise).
C16_OutcomeOfOwnResponses ==
    Final =>
        IF ~LastOutcomeIs("ok") /\ ~RepairSent
        THEN /\ pc = "raised"
             /\ error.what = outcomes[Len(outcomes)]
             /\ result = None
        ELSE IF ~Truthy(ExtractText(mode, data))
        THEN pc = "raised" /\ error.what = "NoTextFound" /\ result = None
        ELSE /\ text = ExtractText(mode, data)
             /\ Ending(pc, result, error, validation) =
                   Finish(ParseOrSalvage(IF Truthy(text2) THEN text2 ELSE text,
                                         schema, user_prompt),
                          schema, user_prompt,
                          IF Truthy(text2) THEN text2 ELSE text, text, text2)

\* A call that raised UnparsableOutput with the snippet of its own text while
\* the cache holds what the other call wrote during the repair request.
C16_RaisedDespiteOtherCall ==
    /\ pc = "raised"
    /\ error = Error("ValueError", "UnparsableOutput", text.v)
    /\ last_response_json = OtherJson
    /\ last_response_text = OtherText
    /\ text # OtherText

(***************************************************************************)
(* Properties of response_json_checked, checked under SpecValidator        *)
(***************************************************************************)
\* C10: response_json_checked returns the decoded body exactly when the body
\* is not empty, the content-type header contains application/json (letter
\* case aside), the body decodes as JSON and the status is not a 4xx or 5xx;
\* in every other case it raises and returns nothing.
C10_ReturnsIffAllChecksPass ==
    checked # NotChecked =>
        /\ checked.kind = "ok" <=>
              /\ resp.body.kind # "empty"
              /\ \E i \in 1..Len(resp.ctype) : MatchAtLower(resp.ctype, i, CT_json)
              /\ DecodeBody(resp.body).ok
              /\ resp.status \notin 400..599
        /\ checked.kind = "ok" =>
              checked.exc = "none" /\ checked.data = DecodeBody(resp.body).val
        /\ checked.kind # "ok" =>
              /\ checked.exc \in {"LLMHTTPError", "JSONDecodeError"}
              /\ checked.data = None

\* A redirect-class status with a JSON header in capital letters and a
\* charset, returned as decoded.
C10_ReturnedNonErrorStatus ==
    /\ checked.kind = "ok"
    /\ resp.status = 399
    /\ resp.ctype = CT_json_charset
    /\ checked.data # None

\* C11: response_json_checked raises the first failure in the order EmptyBody,
\* NonJSONResponse, JSON decode failure, HTTPError whose condition holds for
\* the response; EmptyBody and NonJSONResponse are raised without a call of
\* resp.json().  A status-200 text/html response with a body raises
\* NonJSONResponse, and a status-200 application/json response with an empty
\* body raises EmptyBody.
C11_FirstFailureInOrder ==
    checked # NotChecked =>
        /\ checked.kind =
              IF resp.body.kind = "empty" THEN "EmptyBody"
              ELSE IF \A i \in 1..Len(resp.ctype) : ~MatchAtLower(resp.ctype, i, CT_json)
              THEN "NonJSONResponse"
              ELSE IF resp.body.kind = "malformed" THEN "JSONDecodeError"
              ELSE IF resp.status \in 400..599 THEN "HTTPError"
              ELSE "ok"
        /\ checked.kind \in {"EmptyBody", "NonJSONResponse"} => checked.json_calls = 0
        /\ checked.kind \in {"JSONDecodeError", "HTTPError", "ok"} => checked.json_calls = 1
        /\ resp.status = 200 /\ resp.ctype = CT_html /\ resp.body.kind # "empty" =>
              checked.kind = "NonJSONResponse" /\ checked.exc = "LLMHTTPError"
        /\ resp.status = 200 /\ resp.ctype = CT_json /\ resp.body.kind = "empty" =>
              checked.kind = "EmptyBody" /\ checked.exc = "LLMHTTPError"

\* An empty text/html response with an error status: three failure conditions
\* hold and EmptyBody is raised.
C11_EmptyHtmlErrorStatus ==
    /\ checked.kind = "EmptyBody"
    /\ resp.ctype = CT_html
    /\ resp.status = 500
    /\ resp.body.kind = "empty"

\* C12: for an error status, a JSON content-type and a decodable body that is
\* not empty, response_json_checked raises an HTTPError that holds the decoded
\* body.
C12_HTTPErrorCarriesBody ==
    /\ checked # NotChecked
    /\ resp.status \in 400..599
    /\ \E i \in 1..Len(resp.ctype) : MatchAtLower(resp.ctype, i, CT_json)
    /\ resp.body.kind # "empty"
    /\ DecodeBody(resp.body).ok
    => /\ checked.kind = "HTTPError"
       /\ checked.exc = "LLMHTTPError"
       /\ \E k \in DOMAIN checked.args : checked.args[k] = DecodeBody(resp.body).val


(***************************************************************************)
(* Properties of join_url, checked under SpecURL                           *)
(***************************************************************************)
\* C20: for an absolute base URL, whether or not its path is empty and
\* whether or not it ends in slashes, join_url(base, "a", "b") gives the base
\* with the slashes at the end of its path dropped and /a/b put after the
\* path: the path ends in /a/b, and the join puts no slash next to another.
C20_JoinEndsInAB ==
    pc = "joined" /\ paths = <<<<"a">>, <<"b">>>> =>
        \A p \in BasePaths, q \in BaseSuffixes :
            base_url = BasePrefix \o p \o q =>
                \E n \in 0..Len(p) :
                    /\ n = 0 \/ p[n] # "/"
                    /\ \A k \in (n + 1)..Len(p) : p[k] = "/"
                    /\ url = Ok(BasePrefix \o SubSeq(p, 1, n) \o <<"/", "a",
                        "/", "b">> \o q)

\* A base whose path ends in two slashes and that has a query, joined.
C20_TrailingSlashesJoined ==
    /\ pc = "joined"
    /\ base_url = <<"h", "t", "t", "p", ":", "/", "/", "h", "/", "p", "/",
        "/", "?", "q", "=", "/">>
    /\ paths = <<<<"a">>, <<"b">>>>
    /\ url = Ok(<<"h", "t", "t", "p", ":", "/", "/", "h", "/", "p", "/", "a",
        "/", "b", "?", "q", "=", "/">>)


(***************************************************************************)
(* Properties of preflight_llm, checked under SpecProbe                    *)
(***************************************************************************)
\* C13: preflight_llm issues one GET, to the models URL of the mode, and
\* returns only when the response passed every check of
\* response_json_checked; every transport failure and every failure of a
\* check ends the probe with that failure, after the one request.
C13_ProbeOneGetNoSwallow ==
    /\ Len(sent) <= 1
    /\ Len(outcomes) <= Len(sent)
    /\ pc \in {"probe", "probe_returned"} => Len(sent) = 1
    /\ Len(sent) = 1 =>
          /\ sent[1].kind = "probe"
          /\ sent[1].payload.method = "GET"
          /\ url = ModelsUrl(mode, base_url).val
          /\ SubSeq(url, Len(url) - 6, Len(url)) = <<"/", "m", "o", "d", "e",
              "l", "s">>
          /\ mode = "gemini_native" => HasV1beta(url) /\ ~HasV1betaOpenai(url)
          /\ mode = "gemini_openai" => HasV1betaOpenai(url)
    /\ pc = "probe_returned" =>
          /\ outcomes = <<"ok">>
          /\ resp.body.kind # "empty"
          /\ \E i \in 1..Len(resp.ctype) : MatchAtLower(resp.ctype, i, CT_json)
          /\ DecodeBody(resp.body).ok
          /\ resp.status \notin 400..599
          /\ error = NoError
    /\ Len(outcomes) = 1 /\ outcomes[1] # "ok" =>
          /\ pc = "probe_raised"
          /\ error.what = outcomes[1]
          /\ error.exc = IF outcomes[1] \in TransportErrors THEN "httpx.HTTPError"
                         ELSE IF outcomes[1] = "JSONDecodeError" THEN "JSONDecodeError"
                         ELSE "LLMHTTPError"
    /\ \A kind \in {"EmptyBody", "NonJSONResponse", "JSONDecodeError",
        "HTTPError"} :
          checked.kind = kind => outcomes = <<kind>>

\* A probe ended by the JSON decode failure of its response.
C13_ProbeDecodeFailure ==
    /\ pc = "probe_raised"
    /\ outcomes = <<"JSONDecodeError">>
    /\ error.exc = "JSONDecodeError"
    /\ resp.status = 200

(***************************************************************************)
(* Properties of the configuration checks, checked under SpecConfig        *)
(***************************************************************************)
\* C14: a call of generate_with_images with an empty api_key or base_url, or
\* in gemini_native mode with an empty model or a base whose path has the
\* segments v1beta/openai one after the other, and a call of preflight_llm
\* with an empty base_url or api_key, raise a ValueError before any request is
\* sent, and nothing is sent afterwards.
C14_ConfigErrorsFailFast ==
    /\ (/\ pc \in {"primary", "retry", "repair", "returned", "raised"}
        /\ \/ api_key = << >>
           \/ base_url = << >>
           \/ /\ mode = "gemini_native"
              /\ \/ model = << >>
                 \/ base_url \in {<<"h", "t", "t", "p", ":", "/", "/", "h",
                     "/", "v", "1", "b", "e", "t", "a", "/", "o", "p", "e",
                         "n", "a", "i">>,
                                  <<"h", "t", "t", "p", ":", "/", "/", "h",
                                      "/", "p", "/", "v", "1", "b", "e", "t",
                                          "a", "/", "o", "p", "e", "n", "a",
                                              "i", "/">>})
       => /\ pc = "raised"
          /\ error.exc = "ValueError"
          /\ error.what \in {"ApiKeyEmpty", "BaseUrlEmpty", "ModelEmpty",
                             "IncompatiblePath"}
          /\ sent = << >>
          /\ outcomes = << >>
    /\ (/\ pc \in {"probe", "probe_returned", "probe_raised"}
        /\ base_url = << >> \/ api_key = << >>)
       => /\ pc = "probe_raised"
          /\ error.exc = "ValueError"
          /\ error.what \in {"ApiKeyEmpty", "BaseUrlEmpty"}
          /\ sent = << >>
          /\ outcomes = << >>
    /\ error.what \in {"ApiKeyEmpty", "BaseUrlEmpty", "ModelEmpty",
        "IncompatiblePath",
                       "UnsupportedMode"}
       => sent = << >> /\ outcomes = << >> /\ pc \in {"raised", "probe_raised"}

\* A gemini_native call on a base with the path /v1beta/openai, ended before
\* any request.
C14_NativeOnOpenaiPath ==
    /\ pc = "raised"
    /\ mode = "gemini_native"
    /\ model # << >>
    /\ base_url = <<"h", "t", "t", "p", ":", "/", "/", "h", "/", "v", "1",
        "b", "e", "t", "a", "/", "o", "p", "e", "n", "a", "i">>
    /\ error.what = "IncompatiblePath"
    /\ sent = << >>


(***************************************************************************)
(* Properties of cache_response, checked under SpecCache                   *)
(***************************************************************************)
\* C19: cache_response never raises: whatever the cache holds and whatever
\* fails while the parent directories are created or the file is written, it
\* returns normally and leaves the cached json and text as they were; when
\* nothing has been cached it creates no directory and writes no file.
C19_CacheResponseNeverRaises ==
    /\ [](pc = "cache_done" => disk.call = "returned")
    /\ [][/\ last_response_json' = last_response_json
          /\ last_response_text' = last_response_text
          /\ (last_response_json = None /\ last_response_text = None)
                => /\ disk'.dir = disk.dir
                   /\ disk'.file = disk.file]_vars

\* The write failed after the file was opened, and the call is over.
C19_WriteFailed ==
    /\ pc = "cache_done"
    /\ disk.file = [written |-> "part"]
    /\ last_response_json = StaleJson
    /\ last_response_text = StaleText


(***************************************************************************)
(* Properties of the URL builders, checked under SpecResolve               *)
(***************************************************************************)
\* The sequence a is the beginning of the sequence b.
StartsWithSeq(b, a) == Len(a) <= Len(b) /\ SubSeq(b, 1, Len(a)) = a

\* C21: for every mode and every base URL that resolves, the models URL and
\* the completion URL have the scheme, host, query and fragment of the base
\* (the whitespace around it aside), and their path segments begin with the
\* path segments of the base: segments are appended, none is dropped or
\* rewritten.
C21_BaseKeptAsPrefix ==
    pc \in {"models_url", "completion_url"} =>
        /\ UrlSplit(url).scheme = UrlSplit(Strip(base_url)).scheme
        /\ UrlSplit(url).netloc = UrlSplit(Strip(base_url)).netloc
        /\ UrlSplit(url).query = UrlSplit(Strip(base_url)).query
        /\ UrlSplit(url).fragment = UrlSplit(Strip(base_url)).fragment
        /\ StartsWithSeq(PathSegments(url), PathSegments(Strip(base_url)))
        /\ Len(PathSegments(url)) > Len(PathSegments(Strip(base_url)))

\* A completion URL behind a reverse-proxy prefix, with query and fragment.
C21_ProxyPrefixWithQuery ==
    /\ pc = "completion_url"
    /\ mode = "gemini_openai"
    /\ base_url = <<"h", "t", "t", "p", ":", "/", "/", "h", "/", "p", "/",
        "?", "v", "1", "b", "e", "t", "a", "#", "o", "p", "e", "n", "a", "i">>
    /\ url = <<"h", "t", "t", "p", ":", "/", "/", "h", "/", "p", "/", "v",
        "1", "b", "e", "t", "a", "/", "o", "p", "e", "n", "a", "i", "/", "c",
            "h", "a", "t", "/", "c", "o", "m", "p", "l", "e", "t", "i", "o",
                "n", "s", "?", "v", "1", "b", "e", "t", "a", "#", "o", "p",
                    "e", "n", "a", "i">>


\* C22: for every base URL whose path holds the segment v1beta (and that does
\* not itself hold /v1beta/v1beta), the models URL of gemini_native does not
\* contain /v1beta/v1beta.
C22_NoDoubleV1beta ==
    (/\ pc = "models_url"
     /\ mode = "gemini_native"
     /\ HasV1beta(Strip(base_url))
     /\ ~Contains(base_url, <<"/", "v", "1", "b", "e", "t", "a", "/", "v",
         "1", "b", "e", "t", "a">>))
        => ~Contains(url, <<"/", "v", "1", "b", "e", "t", "a", "/", "v", "1",
            "b", "e", "t", "a">>)


\* C23: for every base URL whose path holds the segment v1beta immediately
\* followed by the segment openai, both gemini_native derivations (the models
\* URL and the completion URL) raise the configuration error and give no URL.
C23_NativeRejectsOpenaiRoot ==
    (/\ mode = "gemini_native"
     /\ HasV1betaOpenai(Strip(base_url))
     /\ pc # "resolve_idle")
        => /\ pc \in {"models_raised", "completion_raised"}
           /\ error = Error("ValueError", "IncompatiblePath", << >>)
           /\ url = << >>


\* C24: the segments that are already there are found as whole path segments
\* only: for a base with no path segment equal to v1beta (one that holds
\* v1beta as a part of a segment, in its query or in its fragment included),
\* gemini_native appends v1beta before models, and gemini_openai appends
\* v1beta and openai.
C24_WholeSegmentsOnly ==
    (/\ pc \in {"models_url", "completion_url"}
     /\ \A i \in 1..Len(PathSegments(Strip(base_url))) :
           PathSegments(Strip(base_url))[i] # P_v1beta)
        => PathSegments(url) =
              PathSegments(Strip(base_url))
                 \o (IF mode = "openai" THEN << >>
                     ELSE IF mode = "gemini_native" THEN <<P_v1beta>>
                     ELSE <<P_v1beta, P_openai>>)
                 \o (IF pc = "models_url" THEN <<P_models>>
                     ELSE IF mode = "gemini_native"
                     THEN <<P_models, model \o <<":", "g", "e", "n", "e", "r",
                         "a", "t", "e", "C", "o", "n", "t", "e", "n", "t">>>>
                     ELSE <<<<"c", "h", "a", "t">>, <<"c", "o", "m", "p", "l",
                         "e", "t", "i", "o", "n", "s">>>>)

\* The base holds v1betaX and openai as segments and /v1beta/openai in its
\* query.
C24_SubstringAndQuery ==
    /\ pc = "models_url"
    /\ mode = "gemini_openai"
    /\ base_url = <<"h", "t", "t", "p", ":", "/", "/", "h", "/", "v", "1",
        "b", "e", "t", "a", "X", "/", "o", "p", "e", "n", "a", "i", "?", "a",
            "=", "/", "v", "1", "b", "e", "t", "a", "/", "o", "p", "e", "n",
                "a", "i">>
    /\ url = <<"h", "t", "t", "p", ":", "/", "/", "h", "/", "v", "1", "b",
        "e", "t", "a", "X", "/", "o", "p", "e", "n", "a", "i", "/", "v", "1",
            "b", "e", "t", "a", "/", "o", "p", "e", "n", "a", "i", "/", "m",
                "o", "d", "e", "l", "s", "?", "a", "=", "/", "v", "1", "b",
                    "e", "t", "a", "/", "o", "p", "e", "n", "a", "i">>


\* C25: the derivation of the gemini_openai root is idempotent for every base
\* URL: deriving the root from a derived root returns it as it is, so that
\* neither v1beta nor openai is appended a second time.
C25_RootIdempotent ==
    [][pc = "root" => (pc' = "root_again" /\ url' = url)]_vars


(***************************************************************************)
(* Properties of the extraction functions, checked under SpecExtract       *)
(***************************************************************************)
\* C26: for a text that is exactly the JSON serialization of an object,
\* _extract_first_json returns an object equal to the serialized one from its
\* direct-parse stage, and lines 407-411 give the same: no fenced block, no
\* bracket scan and no salvage runs or changes it, and with a parsed value
\* there is no repair.
C26_CleanJsonDirect ==
    \A o \in DumpObjects :
        (text = JStr(JsonDumps(o)) /\ pc \in {"extracted", "parsed"})
            => /\ parsed = o
               /\ json_stage = "direct"
               /\ xy_pairs = << >>
    /\ NoService

\* The serialized object holds coordinate pairs, a brace and a fence in a
\* string, and the schema is one the salvage stage fills from pairs.
C26_ObjectWithPairsInString ==
    /\ pc = "parsed"
    /\ schema = "area_select"
    /\ text = JStr(<<"{", "\"", "a", "\"", ":", " ", "\"", "(", "1", ",", "2",
        ")", " ", "a", "n", "d", " ", "x", "=", "3", ",", " ", "y", "=", "4",
            "\"", "}">>)
    /\ parsed = Obj1(<<"a">>, JStr(<<"(", "1", ",", "2", ")", " ", "a", "n",
        "d", " ", "x", "=", "3", ",", " ", "y", "=", "4">>))


PairsIn(s) ==
    {<<XYMatchAt(s, j).x, XYMatchAt(s, j).y>> :
        j \in {k \in 1..Len(s) : XYMatchAt(s, k).found}}
    \cup {<<ParenMatchAt(s, j).x, ParenMatchAt(s, j).y>> :
        j \in {k \in 1..Len(s) : ParenMatchAt(s, k).found}}

\* C28 as stated: for a schema with a points list and the text "point is
\* x=10, y=20" the salvage stage returns the object {"points": [{"x": 10,
\* "y": 20}]}.
C28_PointsObjectAlone ==
    (/\ pc = "salvaged"
     /\ schema = "area_select"
     /\ text = JStr(<<"p", "o", "i", "n", "t", " ", "i", "s", " ", "x", "=",
         "1", "0", ",", " ", "y", "=", "2", "0">>))
        => parsed = Obj1(K_points, JArr(<<Point(<<10, 20>>)>>))

\* C28, amended: for a schema with a points list and the text "point is
\* x=10, y=20" the salvage stage returns the object with the key
\* challenge_prompt (the user prompt, or "" without one) and the key points
\* with [{"x": 10, "y": 20}]; in general the points are one per distinct
\* coordinate pair that stands in the text, and the stage returns None when
\* no pair stands in it.
C28_SalvagedPoints ==
    (pc = "salvaged" /\ schema = "area_select")
        => /\ text = JStr(<<"p", "o", "i", "n", "t", " ", "i", "s", " ", "x",
            "=", "1", "0", ",", " ", "y", "=", "2", "0">>)
                => parsed = JObj((K_challenge_prompt :> PromptOrEmpty(user_prompt))
                                 @@ (K_points :> JArr(<<Point(<<10, 20>>)>>)))
           /\ PairsIn(text.v) = {} <=> parsed = None
           /\ PairsIn(text.v) # {}
                => /\ DOMAIN parsed.v = {K_challenge_prompt, K_points}
                   /\ parsed.v[K_challenge_prompt] = PromptOrEmpty(user_prompt)
                   /\ Len(parsed.v[K_points].v) = Cardinality(PairsIn(text.v))
                   /\ {parsed.v[K_points].v[k] : k \in 1..Len(parsed.v[K_points].v)}
                         = {Point(p) : p \in PairsIn(text.v)}

\* The text of the scenario, salvaged without a user prompt.
C28_PointSalvaged ==
    /\ pc = "salvaged"
    /\ schema = "area_select"
    /\ user_prompt = None
    /\ text = JStr(<<"p", "o", "i", "n", "t", " ", "i", "s", " ", "x", "=",
        "1", "0", ",", " ", "y", "=", "2", "0">>)
    /\ parsed = JObj((K_challenge_prompt :> JStr(<< >>))
                     @@ (K_points :> JArr(<<Point(<<10, 20>>)>>)))


\* C29: for a schema with a two-point path, a text with at least two distinct
\* coordinate pairs makes the salvage stage return a paths list of exactly
\* one element, whose start is the first and whose end is the second of the
\* extracted pairs (two different pairs of the text); a text with fewer than
\* two distinct pairs makes it return None.
C29_SalvagedPath ==
    (pc = "salvaged" /\ schema = "drag_drop")
        => /\ text = JStr(<<"(", "5", ",", "5", ")", " ", ".", ".", ".", " ",
            "(", "9", ",", "9", ")">>)
                => parsed = JObj((K_challenge_prompt :> PromptOrEmpty(user_prompt))
                                 @@ (K_paths :> JArr(<<JObj(
                                        (K_start_point :> Point(<<5, 5>>))
                                        @@ (K_end_point :> Point(<<9,
                                            9>>)))>>)))
           /\ Cardinality(PairsIn(text.v)) < 2 <=> parsed = None
           /\ Cardinality(PairsIn(text.v)) >= 2
                => /\ Len(parsed.v[K_paths].v) = 1
                   /\ parsed.v[K_paths].v[1].v[K_start_point] = Point(xy_pairs[1])
                   /\ parsed.v[K_paths].v[1].v[K_end_point] = Point(xy_pairs[2])
                   /\ xy_pairs[1] # xy_pairs[2]
                   /\ {xy_pairs[1], xy_pairs[2]} \subseteq PairsIn(text.v)

\* The text of the scenario, salvaged with a user prompt.
C29_PathSalvaged ==
    /\ pc = "salvaged"
    /\ schema = "drag_drop"
    /\ user_prompt = JStr(<<"g", "o">>)
    /\ text = JStr(<<"(", "5", ",", "5", ")", " ", ".", ".", ".", " ", "(",
        "9", ",", "9", ")">>)
    /\ parsed.v[K_paths] = JArr(<<JObj((K_start_point :> Point(<<5, 5>>))
                                       @@ (K_end_point :> Point(<<9, 9>>)))>>)


\* The place in the text s where the coordinate pair p stands first.
FirstPlace(s, p) ==
    MinOf({j \in 1..Len(s) :
              \/ XYMatchAt(s, j).found /\ <<XYMatchAt(s, j).x, XYMatchAt(s,
                  j).y>> = p
              \/ /\ ParenMatchAt(s, j).found
                 /\ <<ParenMatchAt(s, j).x, ParenMatchAt(s, j).y>> = p})

\* C30: for every text the extracted coordinate pairs are the pairs of the
\* text without duplicates, in the order of the places where each pair
\* stands first in the text, whichever of the two pattern families matched
\* it.
C30_PairsInTextOrder ==
    pc = "salvaged" =>
        /\ {xy_pairs[k] : k \in 1..Len(xy_pairs)} = PairsIn(text.v)
        /\ \A i, k \in 1..Len(xy_pairs) :
              i < k => /\ xy_pairs[i] # xy_pairs[k]
                       /\ FirstPlace(text.v, xy_pairs[i]) < FirstPlace(text.v,
                           xy_pairs[k])


(***************************************************************************)
(* _normalize_for_schema on its own: one parsed value, normalised once     *)
(***************************************************************************)
\* Parsed values handed to _normalize_for_schema: objects of the expected
\* shape, flat ones, ones with part of a shape, and values that are no object.
FlatPath ==
    (K_start_point :> Point(<<1, 2>>)) @@ (K_end_point :> Point(<<3, 4>>))
NormalizeInputs ==
    DumpObjects \cup
    {JObj(FlatPath),
     JObj((K_challenge_prompt :> JStr(<<"h", "i">>)) @@
          (K_challenge_type :> JStr(ImageDragMulti)) @@ FlatPath),
     JObj((K_challenge_prompt :> JStr(<<"h", "i">>)) @@ (K_x :> JNum(8)) @@
          (K_y :> JNum(6))),
     JObj((K_x :> JStr(<<"7">>)) @@ (K_y :> None)),
     Obj1(K_x, JNum(4)),
     JObj((K_paths :> JArr(<<JObj(FlatPath)>>)) @@ (K_x :> JNum(8)) @@
          (K_y :> JNum(6))),
     JObj((K_points :> JArr(<<Point(<<3, 3>>)>>)) @@ FlatPath),
     Obj1(K_paths, JStr(<<"n", "o">>)),
     Obj1(K_challenge_type, JStr(ImageDragSingle)),
     JArr(<<Point(<<1, 2>>)>>),
     JStr(<<"x", "=", "1">>),
     JNum(5),
     None}

InitNormalize ==
    /\ mode = "openai"
    /\ schema \in Schemas
    /\ user_prompt \in UserPrompts
    /\ last_response_json = None
    /\ last_response_text = None
    /\ pc = "normalize_idle"
    /\ sent = << >>
    /\ outcomes = << >>
    /\ data \in NormalizeInputs
    /\ text = None
    /\ text2 = None
    /\ parsed = None
    /\ validation = NoValidation
    /\ result = None
    /\ error = NoError
    /\ resp = NoResp
    /\ checked = NotChecked
    /\ api_key = <<"k">>
    /\ base_url = ValidBase
    /\ model = <<"m">>
    /\ url = << >>
    /\ paths = << >>
    /\ disk = NoDisk
    /\ json_stage = "none"
    /\ xy_pairs = << >>
    /\ NoService

\* parsed = _normalize_for_schema(data, response_schema=schema,
\* user_prompt=user_prompt): data is the value as it was handed in.
NormalizeCall ==
    /\ pc = "normalize_idle"
    /\ parsed' = NormalizeForSchema(data, schema, user_prompt)
    /\ pc' = "normalized"
    /\ UNCHANGED <<service, mode, schema, user_prompt, last_response_json, last_response_text,
                   sent, outcomes, data, text, text2, validation, result, error,
                   resp, checked, api_key, base_url, model, url, paths, disk,
                   json_stage, xy_pairs>>

NextNormalize == NormalizeCall

SpecNormalize == InitNormalize /\ [][NextNormalize]_vars

(***************************************************************************)
(* Properties of _normalize_for_schema, checked under SpecNormalize        *)
(***************************************************************************)
\* The values that are no array and no object inside a value.
RECURSIVE Leaves(_)
Leaves(x) ==
    IF IsDict(x) THEN UNION {Leaves(x.v[k]) : k \in DOMAIN x.v}
    ELSE IF IsList(x) THEN UNION {Leaves(x.v[k]) : k \in 1..Len(x.v)}
    ELSE {x}

\* C31: normalisation only restructures.  Whatever stands in the normalised
\* value under a key other than challenge_prompt is made of values of the
\* parsed input; its challenge_prompt is the input's own or, when the input
\* had none, the caller's prompt (the empty text when there is no prompt); a
\* value that is no object comes back as it was; and paths or points that the
\* input already has under the schema's field come back unchanged.
C31_OnlyRestructures ==
    pc = "normalized" =>
        /\ ~IsDict(data) => parsed = data
        /\ IsDict(data) =>
            /\ IsDict(parsed)
            /\ \A k \in DOMAIN parsed.v \ {K_challenge_prompt} :
                  Leaves(parsed.v[k]) \subseteq Leaves(data)
            /\ K_challenge_prompt \in DOMAIN parsed.v =>
                  IF K_challenge_prompt \in DOMAIN data.v
                  THEN parsed.v[K_challenge_prompt] = data.v[K_challenge_prompt]
                  ELSE parsed.v[K_challenge_prompt] = PromptOrEmpty(user_prompt)
            /\ \A k \in {K_paths, K_points} \cap ModelFields(schema) :
                  k \in DOMAIN data.v =>
                      k \in DOMAIN parsed.v /\ parsed.v[k] = data.v[k]

\* A flat {x, y} without a prompt was lifted into points and the caller's
\* prompt was echoed into the missing field.
C31_FlatPointLifted ==
    /\ pc = "normalized"
    /\ schema = "area_select"
    /\ data = Point(<<1, 2>>)
    /\ user_prompt = JStr(<<"g", "o">>)
    /\ parsed = JObj((K_challenge_prompt :> user_prompt) @@
                     (K_points :> JArr(<<data>>)))


(***************************************************************************)
(* Termination of generate_with_images, checked under SpecLive             *)
(***************************************************************************)
\* C32: a call posts at most three requests (the primary one, one downgrade
\* retry, one repair), and when every posted request comes to an end the call
\* returns a result or raises.
C32_CallEnds ==
    /\ [](Len(sent) <= 3 /\ Len(outcomes) <= Len(sent))
    /\ <>(pc \in {"returned", "raised"})

\* A call that went through the retry and the repair and then returned.
C32_ReturnedAfterThree ==
    /\ pc = "returned"
    /\ Len(sent) = 3
    /\ sent[2].kind = "retry"
    /\ sent[3].kind = "repair"
    /\ Len(outcomes) = 3


(***************************************************************************)
(* app/services/epic_authorization_service.py: EpicAuthorization.invoke    *)
(***************************************************************************)
K_orders == <<"o", "r", "d", "e", "r", "s">>

\* What page.request.get(URL_ORDER_HISTORY) and resp.json() give: the request
\* raises (transport "error") or answers with a status, a content-type header
\* and a body that resp.json() decodes or fails to decode.
AccountStatusCodes == {200, 204, 302, 401}
AccountBodies ==
    {Ok(Obj1(K_orders, JArr(<< >>))),
     Ok(Obj1(K_error, JStr(<<"x">>))),
     Ok(JArr(<<JStr(K_orders)>>)),
     Raised}
AccountAnswers ==
    {[transport |-> "error", status |-> 0, ctype |-> << >>, json |-> Raised]}
    \cup [transport : {"ok"}, status : AccountStatusCodes,
          ctype : {CT_json, CT_json_charset, CT_html, << >>}, json : AccountBodies]

\* resp.ok
RespOk(status) == status >= 200 /\ status <= 299

\* _probe_account_logged_in(timeout_ms) when the request ends as a
\* (lines 51-69): every exception gives False.
ProbeAccountLoggedIn(a) ==
    IF a.transport # "ok" THEN FALSE
    ELSE IF ~RespOk(a.status) THEN FALSE
    ELSE IF ~Contains(LowerText(a.ctype), CT_json) THEN FALSE
    ELSE IF ~a.json.ok THEN FALSE
    ELSE IsDict(a.json.val) /\ K_orders \in DOMAIN a.json.val

\* How a run of _login goes.  failed: a step before the confirmation raised
\* (a field that never shows, a click that fails); confirmed: what set
\* login_confirmed, "signal" (lines 184-207), "probe" (220-226), "store"
\* (228-234) or nothing; screenshot: the screenshot of the except clause
\* (lines 255-257) was written.
LoginRuns ==
    [failed : BOOLEAN, confirmed : {"signal", "probe", "store", "none"},
     screenshot : BOOLEAN]

\* _login(): True, None after an exception that was caught at line 253 (the
\* one of line 238 or 239 when nothing confirmed the login), or the exception
\* of the except clause itself.
Login(run) ==
    IF ~run.failed /\ run.confirmed # "none" THEN Ok(JBool(TRUE))
    ELSE IF run.screenshot THEN Ok(None)
    ELSE Raised

\* Whether invoke probes the account API after _login ended as login: after
\* an exception (line 277) and after a truthy result (line 284).
ProbesAfter(login) == ~login.ok \/ Truthy(login.val)

\* A faulty variant of ReturnsAfter: a truthy login result is taken at its word.
ReturnsAfterTrusted(login, probed) ==
    IF ~login.ok THEN probed ELSE Truthy(login.val)

\* Whether invoke returns True after _login ended as login and the probe that
\* followed, if there was one, gave probed (lines 272-286).
ReturnsAfter(login, probed) == ProbesAfter(login) /\ probed

ProbeEvent(place, ok) == [op |-> "probe", at |-> place, ok |-> ok]
LoginEvent(run, login) ==
    [op |-> "login", at |-> run.confirmed,
     ok |-> login.ok /\ Truthy(login.val)]

InitInvoke ==
    /\ mode = "openai"
    /\ schema = "other"
    /\ user_prompt = None
    /\ last_response_json = None
    /\ last_response_text = None
    /\ pc = "invoke_idle"
    /\ sent = << >>
    /\ outcomes = << >>
    /\ data = None
    /\ text = None
    /\ text2 = None
    /\ parsed = None
    /\ validation = NoValidation
    /\ result = None
    /\ error = NoError
    /\ resp = NoResp
    /\ checked = NotChecked
    /\ api_key = <<"k">>
    /\ base_url = ValidBase
    /\ model = <<"m">>
    /\ url = << >>
    /\ paths = << >>
    /\ disk = NoDisk
    /\ json_stage = "none"
    /\ xy_pairs = << >>
    /\ NoService

\* Lines 261-263: the handler is registered and the loop starts.
InvokeCall ==
    /\ pc = "invoke_idle"
    /\ pc' = "loop"
    /\ attempt' = 0
    /\ UNCHANGED <<llm, result, error, events, promotions, idx, unverified_claims,
                   verify_failed, has_cart_items>>

\* Lines 267-269: the probe at the head of an attempt.
LoopProbe ==
    /\ pc = "loop"
    /\ attempt < 3
    /\ \E a \in AccountAnswers :
          /\ events' = Append(events, ProbeEvent("head", ProbeAccountLoggedIn(a)))
          /\ IF ProbeAccountLoggedIn(a)
             THEN pc' = "returned" /\ result' = JBool(TRUE)
             ELSE pc' = "login" /\ UNCHANGED result
    /\ UNCHANGED <<llm, error, attempt, promotions, idx, unverified_claims,
                   verify_failed, has_cart_items>>

\* Lines 271-286: _login and the probe after it; the attempt ends with
\* return True or with the next round of the loop.
LoginAttempt ==
    /\ pc = "login"
    /\ \E run \in LoginRuns, a \in AccountAnswers :
       \E login \in {Login(run)} :
          /\ events' = Append(events, LoginEvent(run, login)) \o
                       (IF ProbesAfter(login)
                        THEN <<ProbeEvent("login", ProbeAccountLoggedIn(a))>>
                        ELSE << >>)
          /\ IF ReturnsAfter(login, ProbeAccountLoggedIn(a))
             THEN pc' = "returned" /\ result' = JBool(TRUE) /\ UNCHANGED attempt
             ELSE /\ attempt' = attempt + 1
                  /\ pc' = IF attempt + 1 < 3 THEN "loop" ELSE "final"
                  /\ UNCHANGED result
    /\ UNCHANGED <<llm, error, promotions, idx, unverified_claims,
                   verify_failed, has_cart_items>>

\* Lines 288-294: the probe after the last attempt.
FinalProbe ==
    /\ pc = "final"
    /\ \E a \in AccountAnswers :
          /\ events' = Append(events, ProbeEvent("final", ProbeAccountLoggedIn(a)))
          /\ result' = JBool(ProbeAccountLoggedIn(a))
    /\ pc' = "returned"
    /\ UNCHANGED <<llm, error, attempt, promotions, idx, unverified_claims,
                   verify_failed, has_cart_items>>

NextInvoke ==
    \/ InvokeCall
    \/ LoopProbe
    \/ LoginAttempt
    \/ FinalProbe

SpecInvoke == InitInvoke /\ [][NextInvoke]_vars

(***************************************************************************)
(* Properties of EpicAuthorization.invoke, checked under SpecInvoke        *)
(***************************************************************************)
\* The positions of the events of one kind.
EventsOf(op) == {k \in 1..Len(events) : events[k].op = op}

\* C35: invoke returns True only when the last thing it did was a probe of
\* the account API that succeeded, so that a _login that reports success and
\* is followed by a failing probe never makes it return True; it makes at
\* most three login attempts; and it returns False only after three login
\* attempts and the one final probe, none of its probes having succeeded.
C35_TrueOnlyAfterProbe ==
    /\ Cardinality(EventsOf("login")) <= 3
    /\ pc # "raised"
    /\ (pc = "returned" /\ result = JBool(TRUE)) =>
          /\ events # << >>
          /\ events[Len(events)] \in
                {ProbeEvent(place, TRUE) : place \in {"head", "login", "final"}}
    /\ (pc = "returned" /\ result # JBool(TRUE)) =>
          /\ result = JBool(FALSE)
          /\ Cardinality(EventsOf("login")) = 3
          /\ events[Len(events)] = ProbeEvent("final", FALSE)
          /\ \A k \in EventsOf("probe") :
                /\ ~events[k].ok
                /\ events[k].at = "final" => k = Len(events)

\* Three runs of _login reported success, each probe of the account API
\* failed, and invoke returned False.
C35_LoginSuccessNotTrusted ==
    /\ pc = "returned"
    /\ result = JBool(FALSE)
    /\ Cardinality({k \in EventsOf("login") : events[k].ok}) = 3


(***************************************************************************)
(* app/services/epic_games_service.py: EpicGames.collect_weekly_games      *)
(***************************************************************************)
\* The url of a promotion: a product page, one with whitespace around it,
\* whitespace alone, and the empty text.
U_page == <<"h", "/", "a">>
U_padded == <<" ", "h", "/", "b", " ">>
U_blank == <<" ">>
Urls == {U_page, U_padded, U_blank, << >>}

\* The most promotions handed to collect_weekly_games.
MaxPromotions == 2

PromotionLists ==
    UNION {[1..n -> Urls] : n \in 0..MaxPromotions}

\* _normalize_url(url)
NormalizeUrl(u) == Strip(u)

\* What the product page shows when add_promotion_to_cart visits it.
\*   goto_raises    page.goto (line 366) or text_content (line 388) raises exc
\*   count_timeout  btn_list.count() times out (lines 380-383)
\*   in_library     the buttons say In Library or Owned (lines 390-392)
\*   no_button      the purchase button does not show (lines 397-400)
\*   not_available  the button says neither Get nor Add To Cart (402-404)
\*   get            the button says Get; checkouts[k] is what the k-th
\*                  _handle_instant_checkout returns (lines 411-430)
\*   get_raises     the Get or Add To Cart branch raises (lines 439-442)
\*   add_to_cart    the button says Add To Cart (lines 432-437)
Exceptions == {"TimeoutError", "Error"}
PageVisits ==
    {[kind |-> "goto_raises", exc |-> e, checkouts |-> << >>] : e \in Exceptions}
    \cup {[kind |-> k, exc |-> "none", checkouts |-> << >>] :
             k \in {"count_timeout", "in_library", "no_button", "not_available",
                    "get_raises", "add_to_cart"}}
    \cup {[kind |-> "get", exc |-> "none", checkouts |-> <<a, b>>] :
             a \in BOOLEAN, b \in BOOLEAN}

\* Lines 412-426: claimed after at most two instant checkouts.
Claimed(checkouts) == checkouts[1] \/ checkouts[2]

\* Whether the visit of lines 366-442 appends url to self._unverified_claims.
RecordsUnverified(v) ==
    \/ v.kind = "get" /\ ~Claimed(v.checkouts)
    \/ v.kind = "get_raises"

\* A faulty variant of AllFailed: the claims that instant checkout could not
\* verify are left out.
AllFailedFinalPassOnly(unverified, failed) == failed

\* Line 514: self._unverified_claims + verify_failed (the order and the
\* duplicates of the list do not matter to line 515).
AllFailed(unverified, failed) == unverified \o failed

\* An exception leaves the body of collect_weekly_games: tenacity runs the
\* body again after a TimeoutError of the first run (line 488) and lets
\* everything else through.
Leave(exc) ==
    IF exc = "TimeoutError" /\ attempt < 2
    THEN /\ attempt' = attempt + 1
         /\ pc' = "collect"
         /\ UNCHANGED error
    ELSE /\ pc' = "raised"
         /\ error' = Error(exc, "collect_weekly_games", << >>)
         /\ UNCHANGED attempt

GameEvent(op, u, ok) == [op |-> op, url |-> u, ok |-> ok, run |-> attempt]

InitGames ==
    /\ mode = "openai"
    /\ schema = "other"
    /\ user_prompt = None
    /\ last_response_json = None
    /\ last_response_text = None
    /\ pc = "collect"
    /\ sent = << >>
    /\ outcomes = << >>
    /\ data = None
    /\ text = None
    /\ text2 = None
    /\ parsed = None
    /\ validation = NoValidation
    /\ result = None
    /\ error = NoError
    /\ resp = NoResp
    /\ checked = NotChecked
    /\ api_key = <<"k">>
    /\ base_url = ValidBase
    /\ model = <<"m">>
    /\ url = << >>
    /\ paths = << >>
    /\ disk = NoDisk
    /\ json_stage = "none"
    /\ xy_pairs = << >>
    /\ attempt = 1
    /\ events = << >>
    /\ promotions \in PromotionLists
    /\ idx = 0
    /\ unverified_claims \in {<< >>, <<U_page>>}   \* what an earlier call left
    /\ verify_failed = << >>
    /\ has_cart_items = FALSE

\* Lines 489-494 and 360: a run of the body starts.
CollectStart ==
    /\ pc = "collect"
    /\ unverified_claims' = << >>
    /\ verify_failed' = << >>
    /\ has_cart_items' = FALSE
    /\ idx' = 1
    /\ pc' = "cart"
    /\ UNCHANGED <<llm, result, error, attempt, events, promotions>>

\* Lines 362-442: one round of the loop of add_promotion_to_cart.
AddPromotion ==
    /\ pc = "cart"
    /\ idx <= Len(promotions)
    /\ \E u \in {NormalizeUrl(promotions[idx])} :
          IF u = << >>
          THEN /\ idx' = idx + 1
               /\ UNCHANGED <<pc, error, attempt, events, unverified_claims,
                              has_cart_items>>
          ELSE \E v \in PageVisits :
                 IF v.kind = "goto_raises"
                 THEN /\ Leave(v.exc)
                      /\ UNCHANGED <<idx, events, unverified_claims, has_cart_items>>
                 ELSE /\ idx' = idx + 1
                      /\ unverified_claims' =
                            IF RecordsUnverified(v) THEN Append(unverified_claims, u)
                            ELSE unverified_claims
                      /\ events' =
                            IF RecordsUnverified(v)
                            THEN Append(events, GameEvent("unverified", u, FALSE))
                            ELSE events
                      /\ has_cart_items' = (has_cart_items \/ v.kind = "add_to_cart")
                      /\ UNCHANGED <<pc, error, attempt>>
    /\ UNCHANGED <<llm, result, promotions, verify_failed>>

\* Lines 444 and 496: the loop is over; the cart is bought when something
\* is in it.
CartDone ==
    /\ pc = "cart"
    /\ idx > Len(promotions)
    /\ pc' = IF has_cart_items THEN "purchase" ELSE "verify"
    /\ idx' = 1
    /\ UNCHANGED <<llm, result, error, attempt, events, promotions,
                   unverified_claims, verify_failed, has_cart_items>>

\* _purchase_free_game, lines 469-475: the cart page, _empty_cart, the click
\* on Check Out; each of them may raise.
PurchaseFreeGame ==
    /\ pc = "purchase"
    /\ \/ pc' = "checkout" /\ UNCHANGED <<error, attempt>>
       \/ \E e \in Exceptions : Leave(e)
    /\ UNCHANGED <<llm, result, events, promotions, idx, unverified_claims,
                   verify_failed, has_cart_items>>

\* _purchase_free_game, lines 477-486: the purchase container and the
\* challenge.  When one of them fails the page is reloaded and the function
\* calls itself: it starts over at line 469 with nothing changed (the code
\* keeps no count of its calls, and the model keeps none).
Checkout ==
    /\ pc = "checkout"
    /\ \/ pc' = "wait_for_url" /\ UNCHANGED <<error, attempt>>
       \/ pc' = "purchase" /\ UNCHANGED <<error, attempt>>
       \/ \E e \in Exceptions : Leave(e)
    /\ UNCHANGED <<llm, result, events, promotions, idx, unverified_claims,
                   verify_failed, has_cart_items>>

\* Lines 498-502: the success page shows or the wait times out.
WaitForUrl ==
    /\ pc = "wait_for_url"
    /\ \/ pc' = "verify" /\ UNCHANGED <<error, attempt>>
       \/ Leave("Error")
    /\ UNCHANGED <<llm, result, events, promotions, idx, unverified_claims,
                   verify_failed, has_cart_items>>

\* Lines 505-511: one round of the final verification.
VerifyPromotion ==
    /\ pc = "verify"
    /\ idx <= Len(promotions)
    /\ idx' = idx + 1
    /\ \E u \in {NormalizeUrl(promotions[idx])} :
          IF u = << >>
          THEN UNCHANGED <<events, verify_failed>>
          ELSE \E ok \in BOOLEAN :
                 /\ events' = Append(events, GameEvent("verify", u, ok))
                 /\ verify_failed' = IF ok THEN verify_failed
                                     ELSE Append(verify_failed, u)
    /\ UNCHANGED <<llm, pc, result, error, attempt, promotions, unverified_claims,
                   has_cart_items>>

\* Lines 514-519: RuntimeError when something failed, the end otherwise.
CollectEnd ==
    /\ pc = "verify"
    /\ idx > Len(promotions)
    /\ IF AllFailed(unverified_claims, verify_failed) # << >>
       THEN /\ pc' = "raised"
            /\ error' = Error("RuntimeError", "ClaimNotVerified", << >>)
       ELSE /\ pc' = "returned"
            /\ UNCHANGED error
    /\ UNCHANGED <<llm, result, attempt, events, promotions, idx,
                   unverified_claims, verify_failed, has_cart_items>>

NextGames ==
    \/ CollectStart
    \/ AddPromotion
    \/ CartDone
    \/ PurchaseFreeGame
    \/ Checkout
    \/ WaitForUrl
    \/ VerifyPromotion
    \/ CollectEnd

SpecGames == InitGames /\ [][NextGames]_vars

\* The same under the scheduling of the event loop: every step of the
\* coroutine that can be taken is taken, each page operation ending in a
\* result, an error or its timeout.
SpecGamesLive ==
    /\ InitGames
    /\ [][NextGames]_vars
    /\ WF_vars(CollectStart)
    /\ WF_vars(AddPromotion)
    /\ WF_vars(CartDone)
    /\ WF_vars(PurchaseFreeGame)
    /\ WF_vars(Checkout)
    /\ WF_vars(WaitForUrl)
    /\ WF_vars(VerifyPromotion)
    /\ WF_vars(CollectEnd)

(***************************************************************************)
(* Properties of collect_weekly_games, checked under SpecGames             *)
(***************************************************************************)
\* C36: collect_weekly_games completes without raising only if, in its last
\* run, the final verification found in the library every promotion whose url
\* is not empty once _normalize_url has stripped it, and instant checkout
\* recorded no url as unverified; in every other case it raises.
C36_SuccessOnlyWhenVerified ==
    pc = "returned" =>
        /\ \A i \in 1..Len(promotions) :
              NormalizeUrl(promotions[i]) # << >> =>
                  /\ GameEvent("verify", NormalizeUrl(promotions[i]), TRUE) \in
                        {events[k] : k \in 1..Len(events)}
                  /\ GameEvent("verify", NormalizeUrl(promotions[i]), FALSE) \notin
                        {events[k] : k \in 1..Len(events)}
        /\ \A k \in 1..Len(events) :
              events[k].op = "unverified" => events[k].run # attempt

\* The first run recorded an unverified claim and was ended by a
\* TimeoutError; the second run verified both promotions and completed.
C36_VerifiedInSecondRun ==
    /\ pc = "returned"
    /\ attempt = 2
    /\ promotions = <<U_page, U_padded>>
    /\ \E k \in 1..Len(events) : events[k].op = "unverified" /\ events[k].run = 1

(***************************************************************************)
(* Termination of _purchase_free_game, checked under SpecGamesLive         *)
(***************************************************************************)
\* C37: every call of _purchase_free_game comes to an end, by returning or by
\* raising, whatever the checkout attempts do.
C37_PurchaseEnds ==
    (pc = "purchase") ~> (pc \notin {"purchase", "checkout"})

=============================================================================
